---- MODULE Spec2Model ----
(***************************************************************************)
(* Matchmaking queue, call-session lifecycle and WebRTC signaling of       *)
(* sparkvibe, modelled from src/src/hooks/useMatching.ts (the pollAndMatch *)
(* / tryCreateMatch hook), src/src/hooks/useWebRTC.ts, the push+poll       *)
(* variant of that hook kept in src/src/hooks/useLiveStats.ts, and         *)
(* src/src/App.tsx.                                                        *)
(*                                                                         *)
(* Every store call of the hooks is an await: one action of the model is   *)
(* one store operation executing atomically, followed by the hook's code   *)
(* up to the next await.                                                   *)
(***************************************************************************)
EXTENDS Integers, Sequences, FiniteSets, TLC

(***************************************************************************)
(* Bounds                                                                  *)
(***************************************************************************)
Users == {1, 2}            \* participant ids; 1 < 2 is the id order
Durations == {10}          \* desired durations a participant can pick
MaxQueueRows == 2          \* call_queue rows ever inserted
MaxCalls == 2              \* calls rows ever inserted
MaxTicks == 1              \* interval callbacks of one participant in flight at once
MaxStarts == 1             \* startMatching calls of one participant in flight at once
MaxCancels == 1            \* cancelMatching calls of one participant in flight at once
RestartRows == 3           \* call_queue rows of a requester that searches again and again
RestartStarts == 2         \* its startMatching calls in flight at once
RestartCancels == 2        \* its cancelMatching calls in flight at once

QIds == 1..MaxQueueRows
Slots == 1..MaxTicks        \* interval callbacks
PushSlot == 0               \* the push (change-feed) callback
Procs == 0..MaxTicks
StartSlots == 1..MaxStarts
CancelSlots == 1..MaxCancels
NoRow == 0
NoCall == 0

VARIABLES
  \* ---- shared store ----
  queue,       \* call_queue: row id -> [st, user, dur, mw]
  calls,       \* calls: sequence of [user1, user2, status]; id = index
  usersTbl,    \* users: user id -> [fresh, status]
  notif,       \* change-feed UPDATE events of call_queue not yet delivered
  \* ---- App, per participant ----
  screen,      \* 'landing' | 'setup' | 'waiting' | 'call' | 'rating'
  \* ---- useMatching, per participant ----
  ref,         \* refs: isMatching, hasMatched, poll (pollIntervalRef), channel (channelRef)
  ust,         \* React state: isSearching, matchedCall, queueId; duration is the hook's argument
  intervals,   \* live setInterval timers, named by the queueEntryId they close over
  subs,        \* subscribed channels, named by the queueEntryId of their filter
  timeouts,    \* pending 3-minute setTimeout callbacks
  startP,      \* startMatching calls in progress
  cancelP,     \* cancelMatching calls awaiting their update
  tick,        \* callbacks in progress: interval ticks (Slots) and the push callback (PushSlot)
  \* ---- signaling of one participant of one call (useWebRTC) ----
  signals,     \* webrtc_signals rows addressed to the participant, in created_at order
  sig,         \* the hook's refs and the peer connection's remote description
  hs,          \* handleSignal invocations in progress (poll ticks, push callbacks)
  \* ---- the call in progress (App.tsx, useWebRTC mount) ----
  rtc,         \* per user: the mounted hook, its peer connection, tracks and timer
  cfeed,       \* UPDATE events of calls on their way to the call-status subscriptions
  \* ---- the effect of the signaling hook and its initializeCall runs ----
  web,         \* the hook's refs and state, and what each initializeCall run holds
  \* ---- the signaling hooks of both participants, per call id ----
  neg,         \* per user: the mounted callId, the runs of initializeCall; the offers sent
  \* ---- App, per participant: the call timer ----
  app          \* callTimer (seconds) and duration (minutes, chosen on the setup screen)

mvars == <<queue, calls, usersTbl, notif, screen, ref, ust, intervals, subs, timeouts,
           startP, cancelP, tick>>
svars == <<signals, sig, hs>>
cvars == <<rtc, cfeed>>
hvars == <<web, neg>>
avars == <<app>>
vars == <<mvars, svars, cvars, hvars, avars>>

(***************************************************************************)
(* Store helpers                                                           *)
(***************************************************************************)
FreeRow == [st |-> "free", user |-> 0, dur |-> 0, mw |-> 0, old |-> FALSE]
GoneRow == [st |-> "deleted", user |-> 0, dur |-> 0, mw |-> 0, old |-> FALSE]

Exists(q) == q # NoRow /\ queue[q].st \notin {"free", "deleted"}

\* id of the next inserted row; created_at order is id order
NextQId == CHOOSE q \in DOMAIN queue : queue[q].st = "free" /\ \A p \in DOMAIN queue : queue[p].st = "free" => q <= p

CanInsertRow == \E q \in DOMAIN queue : queue[q].st = "free"

Min(S) == CHOOSE x \in S : \A y \in S : x <= y

\* change feed: an UPDATE of row q reaches the channels whose filter is id=eq.q
Feed(q, row) == {[user |-> u, qid |-> q, st |-> row.st, mw |-> row.mw] : u \in {v \in Users : q \in subs[v]}}

\* .update(fields).eq('id', q): unconditional on the row's current status
UpdatedQueue(Q, q, status, mw) ==
  IF q # NoRow /\ Q[q].st \notin {"free", "deleted"}
  THEN [Q EXCEPT ![q].st = status, ![q].mw = mw]
  ELSE Q

UpdateFeed(Q, q) == IF q # NoRow /\ Q[q].st \notin {"free", "deleted"} THEN Feed(q, Q[q]) ELSE {}

\* .delete().or(`user_id.eq.${userId},created_at.lt.${5 minutes ago}`)
DeleteOf(u) == [q \in DOMAIN queue |-> IF Exists(q) /\ (queue[q].user = u \/ queue[q].old) THEN GoneRow ELSE queue[q]]

\* .insert({user_id, duration, status: 'waiting'}): a new row with a new id
QueueInsert(u, d) == [queue EXCEPT ![NextQId] = [st |-> "waiting", user |-> u, dur |-> d, mw |-> 0, old |-> FALSE]]

\* .eq('status','waiting').eq('duration',d).neq('user_id',u).order('created_at').limit(1)
WaitingOthers(u, d) == {q \in DOMAIN queue : queue[q].st = "waiting" /\ queue[q].dur = d /\ queue[q].user # u}

\* calls of u with status 'connecting', newest first, limit 1
ConnectingCalls(u) == {c \in 1..Len(calls) : (calls[c].user1 = u \/ calls[c].user2 = u) /\ calls[c].status = "connecting"}

Max(S) == CHOOSE x \in S : \A y \in S : x >= y

\* if (pollIntervalRef.current) { clearInterval(pollIntervalRef.current); pollIntervalRef.current = null }
ClearedIntervals(u) == [intervals EXCEPT ![u] = @ \ {ref[u].poll}]

IdleTick == [pc |-> "idle", qid |-> 0, cand |-> 0, candUser |-> 0, call |-> 0, pend |-> {}]
IdleStart == [pc |-> "idle", dur |-> 0, capQ |-> 0, qid |-> 0]
IdleCancel == [pc |-> "idle", qid |-> 0]

\* the calls of startMatching / cancelMatching of u that are not in progress
FreeStarts(u) == {p \in DOMAIN startP[u] : startP[u][p].pc = "idle"}
FreeCancels(u) == {p \in DOMAIN cancelP[u] : cancelP[u][p].pc = "idle"}

(***************************************************************************)
(* Init                                                                    *)
(***************************************************************************)
MatchInit ==
  /\ queue = [q \in QIds |-> FreeRow]
  /\ calls = <<>>
  /\ usersTbl = [u \in Users |-> [fresh |-> TRUE, status |-> "online"]]
  /\ notif = {}
  /\ screen = [u \in Users |-> "landing"]
  /\ ref = [u \in Users |-> [isMatching |-> FALSE, hasMatched |-> FALSE, poll |-> 0, channel |-> 0]]
  /\ ust = [u \in Users |-> [isSearching |-> FALSE, matchedCall |-> NoCall, queueId |-> NoRow, duration |-> 0]]
  /\ intervals = [u \in Users |-> {}]
  /\ subs = [u \in Users |-> {}]
  /\ timeouts = {}
  /\ startP = [u \in Users |-> [p \in StartSlots |-> IdleStart]]
  /\ cancelP = [u \in Users |-> [p \in CancelSlots |-> IdleCancel]]
  /\ tick = [u \in Users |-> [s \in Procs |-> IdleTick]]

(***************************************************************************)
(* startMatching (useMatching.ts 593-647) and pollAndMatch's setup         *)
(***************************************************************************)
\* guard and flags (594-606); the cleanup delete executes (611-614)
startMatching(u, d) ==
  IF ref[u].isMatching \/ ref[u].hasMatched
  THEN UNCHANGED <<queue, ust, ref, startP>>
  ELSE /\ FreeStarts(u) # {}
       /\ CanInsertRow
       /\ ust' = [ust EXCEPT ![u].isSearching = TRUE, ![u].duration = d]
       /\ ref' = [ref EXCEPT ![u].isMatching = TRUE, ![u].hasMatched = FALSE]
       /\ queue' = DeleteOf(u)
       /\ startP' = [startP EXCEPT ![u][Min(FreeStarts(u))] =
                        [pc |-> "insert", dur |-> d, capQ |-> ust[u].queueId, qid |-> 0]]

\* App: "Start" on the landing screen opens the setup screen (App.tsx 505)
openSetup(u) ==
  /\ screen[u] = "landing"
  /\ screen' = [screen EXCEPT ![u] = "setup"]
  /\ UNCHANGED <<queue, calls, usersTbl, notif, ref, ust, intervals, subs, timeouts, startP, cancelP, tick>>
  /\ UNCHANGED <<svars, cvars, hvars, avars>>

\* App.handleStartMatching (App.tsx 337-340), the button of the setup screen
handleStartMatching(u, d) ==
  /\ screen[u] = "setup"
  /\ screen' = [screen EXCEPT ![u] = "waiting"]
  /\ startMatching(u, d)
  /\ UNCHANGED <<calls, usersTbl, notif, intervals, subs, timeouts, cancelP, tick>>
  /\ UNCHANGED <<svars, cvars, hvars, avars>>

\* App: the effect that shows the call screen once matchedCall is set (239-243)
showCall(u) ==
  /\ ust[u].matchedCall # NoCall /\ screen[u] = "waiting"
  /\ screen' = [screen EXCEPT ![u] = "call"]
  /\ UNCHANGED <<queue, calls, usersTbl, notif, ref, ust, intervals, subs, timeouts, startP, cancelP, tick>>
  /\ UNCHANGED <<svars, cvars, hvars, avars>>

\* the insert executes in the store (or fails: catch block resets the flags)
startMatching_insert(u, p) ==
  /\ startP[u][p].pc = "insert"
  /\ \/ /\ CanInsertRow
        /\ queue' = QueueInsert(u, startP[u][p].dur)
        /\ startP' = [startP EXCEPT ![u][p].pc = "setup", ![u][p].qid = NextQId]
        /\ UNCHANGED <<ref, ust>>
     \/ /\ ust' = [ust EXCEPT ![u].isSearching = FALSE]
        /\ ref' = [ref EXCEPT ![u].isMatching = FALSE, ![u].hasMatched = FALSE]
        /\ startP' = [startP EXCEPT ![u][p] = IdleStart]
        /\ UNCHANGED queue
  /\ UNCHANGED <<screen, calls, usersTbl, notif, intervals, subs, timeouts, cancelP, tick>>
  /\ UNCHANGED <<svars, cvars, hvars, avars>>

\* the insert's response arrives: setQueueId, then pollAndMatch subscribes,
\* starts the 2 s interval and arms the 3-minute timeout (649-761)
pollAndMatch(u, p) ==
  /\ startP[u][p].pc = "setup"
  /\ LET q == startP[u][p].qid IN
     /\ ust' = [ust EXCEPT ![u].queueId = q]
     /\ subs' = [subs EXCEPT ![u] = @ \cup {q}]
     /\ intervals' = [intervals EXCEPT ![u] = @ \cup {q}]
     /\ ref' = [ref EXCEPT ![u].channel = q, ![u].poll = q]
     /\ timeouts' = timeouts \cup {[user |-> u, qid |-> q, capQ |-> startP[u][p].capQ]}
  /\ startP' = [startP EXCEPT ![u][p] = IdleStart]
  /\ UNCHANGED <<screen, queue, calls, usersTbl, notif, cancelP, tick>>
  /\ UNCHANGED <<svars, cvars, hvars, avars>>

(***************************************************************************)
(* The interval callback of pollAndMatch (690-743)                         *)
(***************************************************************************)
\* the interval q fires: the "already matched" check (691-698), then our
\* entry is read and the callback branches on its status (705-738)
pollTick(u, s, q) ==
  /\ q \in intervals[u]
  /\ tick[u][s].pc = "idle"
  /\ IF ref[u].hasMatched \/ ~Exists(q) \/ queue[q].st = "cancelled"
     THEN /\ intervals' = ClearedIntervals(u)
          /\ ref' = [ref EXCEPT ![u].poll = 0]
          /\ UNCHANGED tick
     ELSE IF queue[q].st = "matched"
     THEN /\ intervals' = ClearedIntervals(u)
          /\ ref' = [ref EXCEPT ![u].poll = 0, ![u].hasMatched = TRUE]
          /\ tick' = [tick EXCEPT ![u][s] = [IdleTick EXCEPT !.pc = "find", !.qid = q]]
     ELSE IF queue[q].st # "waiting"
     THEN UNCHANGED <<tick, ref, intervals>>
     ELSE /\ tick' = [tick EXCEPT ![u][s] = [IdleTick EXCEPT !.pc = "scan", !.qid = q]]
          /\ UNCHANGED <<ref, intervals>>
  /\ UNCHANGED <<screen, queue, calls, usersTbl, notif, ust, subs, timeouts, startP, cancelP>>
  /\ UNCHANGED <<svars, cvars, hvars, avars>>

(***************************************************************************)
(* tryCreateMatch (763-866)                                                *)
(***************************************************************************)
\* the candidate scan: the oldest waiting entry of another user (770-785)
tryCreateMatch_scan(u, s) ==
  /\ tick[u][s].pc = "scan"
  /\ LET W == WaitingOthers(u, ust[u].duration) IN
     IF W = {}
     THEN tick' = [tick EXCEPT ![u][s] = IdleTick]
     ELSE tick' = [tick EXCEPT ![u][s].pc = "liveness", ![u][s].cand = Min(W),
                                ![u][s].candUser = queue[Min(W)].user]
  /\ UNCHANGED <<screen, queue, calls, usersTbl, notif, ref, ust, intervals, subs, timeouts, startP, cancelP>>
  /\ UNCHANGED <<svars, cvars, hvars, avars>>

\* a liveness test without the freshness window
isActive_statusOnly(v) == usersTbl[v].status # "in_call"

\* isActive: last_active within 120 s and status not in_call (794-796)
isActive(v) == usersTbl[v].fresh /\ usersTbl[v].status # "in_call"

\* the liveness read; then the hasMatched gate and the interval stop (788-812)
tryCreateMatch_liveness(u, s) ==
  /\ tick[u][s].pc = "liveness"
  /\ IF ~isActive(tick[u][s].candUser)
     THEN /\ tick' = [tick EXCEPT ![u][s].pc = "gc"]
          /\ UNCHANGED <<ref, intervals>>
     ELSE IF ~ref[u].hasMatched
     THEN /\ intervals' = ClearedIntervals(u)
          /\ ref' = [ref EXCEPT ![u].hasMatched = TRUE, ![u].poll = 0]
          /\ tick' = [tick EXCEPT ![u][s].pc = "insert"]
     ELSE /\ tick' = [tick EXCEPT ![u][s] = IdleTick]
          /\ UNCHANGED <<ref, intervals>>
  /\ UNCHANGED <<screen, queue, calls, usersTbl, notif, ust, subs, timeouts, startP, cancelP>>
  /\ UNCHANGED <<svars, cvars, hvars, avars>>

\* garbage collection of an inactive candidate's entry (798-802)
tryCreateMatch_gc(u, s) ==
  /\ tick[u][s].pc = "gc"
  /\ queue' = [queue EXCEPT ![tick[u][s].cand] = IF Exists(tick[u][s].cand) THEN GoneRow ELSE @]
  /\ tick' = [tick EXCEPT ![u][s] = IdleTick]
  /\ UNCHANGED <<screen, calls, usersTbl, notif, ref, ust, intervals, subs, timeouts, startP, cancelP>>
  /\ UNCHANGED <<svars, cvars, hvars, avars>>

\* the row tryCreateMatch inserts into calls (817-822)
NewCall(u, v) == [user1 |-> u, user2 |-> v, status |-> "connecting"]

\* the calls insert executes, or fails with callError (815-830)
tryCreateMatch_insert(u, s) ==
  /\ tick[u][s].pc = "insert"
  /\ \/ /\ Len(calls) < MaxCalls
        /\ calls' = Append(calls, NewCall(u, tick[u][s].candUser))
        /\ tick' = [tick EXCEPT ![u][s].pc = "update", ![u][s].call = Len(calls) + 1,
                                 ![u][s].pend = {"ours", "theirs"}]
        /\ UNCHANGED ref
     \/ /\ ref' = [ref EXCEPT ![u].hasMatched = FALSE]
        /\ tick' = [tick EXCEPT ![u][s] = IdleTick]
        /\ UNCHANGED calls
  /\ UNCHANGED <<screen, queue, usersTbl, notif, ust, intervals, subs, timeouts, startP, cancelP>>
  /\ UNCHANGED <<svars, cvars, hvars, avars>>

\* Promise.all of the two queue updates (835-853): each executes on its own,
\* in either order; after both, setMatchedCall (858-860)
tryCreateMatch_update(u, s, w) ==
  /\ tick[u][s].pc = "update"
  /\ w \in tick[u][s].pend
  /\ LET q  == IF w = "ours" THEN tick[u][s].qid ELSE tick[u][s].cand
         mw == IF w = "ours" THEN tick[u][s].candUser ELSE u
         Q  == UpdatedQueue(queue, q, "matched", mw)
     IN /\ queue' = Q
        /\ notif' = notif \cup UpdateFeed(Q, q)
  /\ IF tick[u][s].pend = {w}
     THEN /\ ust' = [ust EXCEPT ![u].matchedCall = tick[u][s].call, ![u].isSearching = FALSE]
          /\ ref' = [ref EXCEPT ![u].isMatching = FALSE]
          /\ tick' = [tick EXCEPT ![u][s] = IdleTick]
     ELSE /\ tick' = [tick EXCEPT ![u][s].pend = @ \ {w}]
          /\ UNCHANGED <<ust, ref>>
  /\ UNCHANGED <<screen, calls, usersTbl, intervals, subs, timeouts, startP, cancelP>>
  /\ UNCHANGED <<svars, cvars, hvars, avars>>

(***************************************************************************)
(* findAndSetCall (868-916), awaited by the tick and by the push callback  *)
(***************************************************************************)
\* first query: .single() is an error when no row matches
findAndSetCall(u, s) ==
  /\ tick[u][s].pc = "find"
  /\ IF ConnectingCalls(u) = {}
     THEN /\ tick' = [tick EXCEPT ![u][s].pc = "retry"]
          /\ UNCHANGED <<ust, ref>>
     ELSE /\ ust' = [ust EXCEPT ![u].matchedCall = Max(ConnectingCalls(u)), ![u].isSearching = FALSE]
          /\ ref' = [ref EXCEPT ![u].isMatching = FALSE]
          /\ tick' = [tick EXCEPT ![u][s] = IdleTick]
  /\ UNCHANGED <<screen, queue, calls, usersTbl, notif, intervals, subs, timeouts, startP, cancelP>>
  /\ UNCHANGED <<svars, cvars, hvars, avars>>

\* the retry one second later (885-907)
findAndSetCall_retry(u, s) ==
  /\ tick[u][s].pc = "retry"
  /\ IF ConnectingCalls(u) = {}
     THEN /\ ust' = [ust EXCEPT ![u].isSearching = FALSE]
          /\ ref' = [ref EXCEPT ![u].isMatching = FALSE, ![u].hasMatched = FALSE]
     ELSE /\ ust' = [ust EXCEPT ![u].matchedCall = Max(ConnectingCalls(u)), ![u].isSearching = FALSE]
          /\ ref' = [ref EXCEPT ![u].isMatching = FALSE]
  /\ tick' = [tick EXCEPT ![u][s] = IdleTick]
  /\ UNCHANGED <<screen, queue, calls, usersTbl, notif, intervals, subs, timeouts, startP, cancelP>>
  /\ UNCHANGED <<svars, cvars, hvars, avars>>

(***************************************************************************)
(* The push callback of pollAndMatch (663-682) and the change feed         *)
(***************************************************************************)
pushCallback(n) ==
  /\ n \in notif
  /\ n.qid \in subs[n.user]
  /\ tick[n.user][PushSlot].pc = "idle"
  /\ notif' = notif \ {n}
  /\ IF n.st = "matched" /\ ~ref[n.user].hasMatched
     THEN /\ intervals' = ClearedIntervals(n.user)
          /\ ref' = [ref EXCEPT ![n.user].hasMatched = TRUE, ![n.user].poll = 0]
          /\ subs' = [subs EXCEPT ![n.user] = @ \ {n.qid}]
          /\ tick' = [tick EXCEPT ![n.user][PushSlot].pc = "find"]
     ELSE UNCHANGED <<intervals, ref, subs, tick>>
  /\ UNCHANGED <<screen, queue, calls, usersTbl, ust, timeouts, startP, cancelP>>
  /\ UNCHANGED <<svars, cvars, hvars, avars>>

\* push delivery is not guaranteed: an event is dropped
losePush(n) ==
  /\ n \in notif
  /\ notif' = notif \ {n}
  /\ UNCHANGED <<screen, queue, calls, usersTbl, ref, ust, intervals, subs, timeouts, startP, cancelP, tick>>
  /\ UNCHANGED <<svars, cvars, hvars, avars>>

(***************************************************************************)
(* cancelMatching (918-949)                                                *)
(***************************************************************************)
\* a cancel that puts the entry back into the waiting pool
cancelWrite_requeue(Q, q) == UpdatedQueue(Q, q, "waiting", Q[q].mw)

\* .update({status: 'cancelled'}).eq('id', queueId) (937-940)
cancelWrite(Q, q) == UpdatedQueue(Q, q, "cancelled", Q[q].mw)

\* cancelMatching run by a closure whose queueId is q, up to its await: a
\* no-op without a queueId (921); else the interval is stopped, the channel
\* unsubscribed and the update issued (924-940)
cancelBody(u, q) ==
  IF q = NoRow
  THEN UNCHANGED <<intervals, subs, ref, cancelP>>
  ELSE /\ FreeCancels(u) # {}
       /\ intervals' = ClearedIntervals(u)
       /\ subs' = [subs EXCEPT ![u] = @ \ {ref[u].channel}]
       /\ ref' = [ref EXCEPT ![u].poll = 0, ![u].channel = 0]
       /\ cancelP' = [cancelP EXCEPT ![u][Min(FreeCancels(u))] = [pc |-> "update", qid |-> q]]

\* the closure of the latest render, with the current queueId
cancelMatching(u) == cancelBody(u, ust[u].queueId)

\* the update executes and its response resets state and flags (937-945)
cancelMatching_update(u, p) ==
  /\ cancelP[u][p].pc = "update"
  /\ LET Q == cancelWrite(queue, cancelP[u][p].qid) IN
     /\ queue' = Q
     /\ notif' = notif \cup UpdateFeed(Q, cancelP[u][p].qid)
  /\ ust' = [ust EXCEPT ![u].isSearching = FALSE, ![u].queueId = NoRow]
  /\ ref' = [ref EXCEPT ![u].isMatching = FALSE, ![u].hasMatched = FALSE]
  /\ cancelP' = [cancelP EXCEPT ![u][p] = IdleCancel]
  /\ UNCHANGED <<screen, calls, usersTbl, intervals, subs, timeouts, startP, tick>>
  /\ UNCHANGED <<svars, cvars, hvars, avars>>

\* App: the Cancel button of the waiting screen (App.tsx 580-584)
cancelClick(u) ==
  /\ screen[u] = "waiting"
  /\ cancelMatching(u)
  /\ screen' = [screen EXCEPT ![u] = "setup"]
  /\ UNCHANGED <<queue, notif, ust, calls, usersTbl, timeouts, startP, tick>>
  /\ UNCHANGED <<svars, cvars, hvars, avars>>

(***************************************************************************)
(* App.endCall (App.tsx 86-136)                                            *)
(***************************************************************************)
\* .update({status: 'ended', ...}).eq('id', c): unconditional; it may fail
EndedCalls(c, ok) == IF ok /\ c # NoCall THEN [calls EXCEPT ![c].status = "ended"] ELSE calls

\* .update({status: 'online', current_call_id: null}).eq('id', u)
OnlineUser(u) == [usersTbl EXCEPT ![u].status = "online"]

\* the UPDATE event of call c for every call-status subscription that is
\* live on the screens scr (App.tsx 139-169: matchedCall set and screen 'call')
CallFeed(c, st, scr) ==
  {[user |-> v, call |-> c, status |-> st] : v \in {w \in Users : scr[w] = "call" /\ ust[w].matchedCall = c}}

\* hangup: leave the call screen, mark the Session ended, reset own user row
endCall(u) ==
  /\ screen[u] = "call"
  /\ screen' = [screen EXCEPT ![u] = "rating"]
  /\ \E ok \in BOOLEAN :
        /\ calls' = EndedCalls(ust[u].matchedCall, ok)
        /\ cfeed' = IF ok /\ ust[u].matchedCall # NoCall
                    THEN cfeed \cup CallFeed(ust[u].matchedCall, "ended", screen') ELSE cfeed
  /\ usersTbl' = IF ust[u].matchedCall # NoCall THEN OnlineUser(u) ELSE usersTbl
  /\ UNCHANGED <<queue, notif, ref, ust, intervals, subs, timeouts, startP, cancelP, tick>>
  /\ UNCHANGED <<svars, rtc, hvars, avars>>

\* the call-status subscription's callback (App.tsx 154-161); an event that
\* finds the subscription gone is discarded
callStatusPush(n) ==
  /\ n \in cfeed
  /\ cfeed' = cfeed \ {n}
  /\ screen' = IF /\ screen[n.user] = "call" /\ ust[n.user].matchedCall = n.call
                  /\ n.status = "ended"
                THEN [screen EXCEPT ![n.user] = "rating"] ELSE screen
  /\ UNCHANGED <<queue, calls, usersTbl, notif, ref, ust, intervals, subs, timeouts, startP, cancelP, tick>>
  /\ UNCHANGED <<svars, rtc, hvars, avars>>

\* push delivery is not guaranteed
callStatusPushLost(n) ==
  /\ n \in cfeed
  /\ cfeed' = cfeed \ {n}
  /\ UNCHANGED mvars
  /\ UNCHANGED <<svars, rtc, hvars, avars>>

(***************************************************************************)
(* The 3-minute timeout of pollAndMatch (745-760)                          *)
(***************************************************************************)
\* the timeout armed for row t.qid fires: unless matched, the expired update
\* is issued and executes, and cancelMatching is called.  t.capQ is the
\* queueId of the render whose startMatching armed the timeout: the
\* cancelMatching it calls is that render's closure
matchingTimeout(t) ==
  /\ t \in timeouts
  /\ timeouts' = timeouts \ {t}
  /\ IF ref[t.user].hasMatched
     THEN UNCHANGED <<queue, notif, intervals, subs, ref, cancelP>>
     ELSE LET Q == UpdatedQueue(queue, t.qid, "expired", queue[t.qid].mw) IN
          /\ queue' = Q
          /\ notif' = notif \cup UpdateFeed(Q, t.qid)
          /\ cancelBody(t.user, t.capQ)
  /\ UNCHANGED <<screen, calls, usersTbl, ust, startP, tick>>
  /\ UNCHANGED <<svars, cvars, hvars, avars>>

(***************************************************************************)
(* Environment: presence heartbeat (last_active) and the passing of time   *)
(***************************************************************************)
\* a user's last_active becomes older than 120 s, or is refreshed
presence(u, b) ==
  /\ usersTbl[u].fresh # b
  /\ usersTbl' = [usersTbl EXCEPT ![u].fresh = b]
  /\ UNCHANGED <<screen, queue, calls, notif, ref, ust, intervals, subs, timeouts, startP, cancelP, tick>>
  /\ UNCHANGED <<svars, cvars, hvars, avars>>

\* a row's created_at becomes older than 5 minutes
rowAges(q) ==
  /\ Exists(q) /\ ~queue[q].old
  /\ queue' = [queue EXCEPT ![q].old = TRUE]
  /\ UNCHANGED <<screen, calls, usersTbl, notif, ref, ust, intervals, subs, timeouts, startP, cancelP, tick>>
  /\ UNCHANGED <<svars, cvars, hvars, avars>>

MatchNext ==
  \/ \E u \in Users : openSetup(u)
  \/ \E u \in Users, d \in Durations : handleStartMatching(u, d)
  \/ \E u \in Users : showCall(u)
  \/ \E u \in Users : \E p \in DOMAIN startP[u] : startMatching_insert(u, p)
  \/ \E u \in Users : \E p \in DOMAIN startP[u] : pollAndMatch(u, p)
  \/ \E u \in Users, s \in Slots, q \in DOMAIN queue : pollTick(u, s, q)
  \/ \E u \in Users, s \in Slots : tryCreateMatch_scan(u, s)
  \/ \E u \in Users, s \in Slots : tryCreateMatch_liveness(u, s)
  \/ \E u \in Users, s \in Slots : tryCreateMatch_insert(u, s)
  \/ \E u \in Users, s \in Slots, w \in {"ours", "theirs"} : tryCreateMatch_update(u, s, w)
  \/ \E u \in Users, s \in Procs : findAndSetCall(u, s)
  \/ \E u \in Users, s \in Procs : findAndSetCall_retry(u, s)
  \/ \E n \in notif : pushCallback(n)
  \/ \E n \in notif : losePush(n)
  \/ \E u \in Users : cancelClick(u)
  \/ \E u \in Users : \E p \in DOMAIN cancelP[u] : cancelMatching_update(u, p)
  \/ \E u \in Users : endCall(u)
  \/ \E n \in cfeed : callStatusPush(n)
  \/ \E n \in cfeed : callStatusPushLost(n)
  \/ \E t \in timeouts : matchingTimeout(t)

\* a users row is left in status in_call by a client that runs the other
\* variant of the hook (426-434 write it, and no hangup resets the partner's)
userInCall(u) ==
  /\ usersTbl[u].status # "in_call"
  /\ usersTbl' = [usersTbl EXCEPT ![u].status = "in_call"]
  /\ UNCHANGED <<screen, queue, calls, notif, ref, ust, intervals, subs, timeouts, startP, cancelP, tick>>
  /\ UNCHANGED <<svars, cvars, hvars, avars>>

\* searching while heartbeats go stale and users rows are left in_call
PresenceNext ==
  \/ \E u \in Users : openSetup(u)
  \/ \E u \in Users, d \in Durations : handleStartMatching(u, d)
  \/ \E u \in Users : \E p \in DOMAIN startP[u] : startMatching_insert(u, p)
  \/ \E u \in Users : \E p \in DOMAIN startP[u] : pollAndMatch(u, p)
  \/ \E u \in Users, s \in Slots, q \in DOMAIN queue : pollTick(u, s, q)
  \/ \E u \in Users, s \in Slots : tryCreateMatch_scan(u, s)
  \/ \E u \in Users, s \in Slots : tryCreateMatch_liveness(u, s)
  \/ \E u \in Users, s \in Slots : tryCreateMatch_gc(u, s)
  \/ \E u \in Users, s \in Slots : tryCreateMatch_insert(u, s)
  \/ \E u \in Users, s \in Slots, w \in {"ours", "theirs"} : tryCreateMatch_update(u, s, w)
  \/ \E u \in Users, s \in Procs : findAndSetCall(u, s)
  \/ \E n \in notif : pushCallback(n)
  \/ \E n \in notif : losePush(n)
  \/ \E u \in Users, b \in BOOLEAN : presence(u, b)
  \/ \E u \in Users : userInCall(u)

\* the same with users that fall asleep and rows that grow old
StaleNext ==
  \/ MatchNext
  \/ \E u \in Users, s \in Slots : tryCreateMatch_gc(u, s)
  \/ \E u \in Users, b \in BOOLEAN : presence(u, b)
  \/ \E q \in DOMAIN queue : rowAges(q)


(***************************************************************************)
(* The variant of the hook with the id tie-break (useMatching.ts 177-565): *)
(* isMatching is ust.isSearching, queueEntryIdRef is ust.queueId,          *)
(* matchingIntervalRef is ref.poll, isProcessingRef is ref.isMatching;     *)
(* the calls of attemptMatch in progress are the slots of tick other than  *)
(* PushSlot                                                                *)
(***************************************************************************)
TieRows == 3               \* call_queue rows of a requester that searches again and again
TieAttempts == 2           \* attemptMatch calls of one participant in flight at once

\* .delete().eq('user_id', u)
DeleteByUser(u) == [q \in DOMAIN queue |-> IF Exists(q) /\ queue[q].user = u THEN GoneRow ELSE queue[q]]

\* .update({status: 'matched', matched_with}).eq('user_id', u)
MatchedByUser(Q, u, mw) ==
  [q \in DOMAIN Q |-> IF Q[q].st \notin {"free", "deleted"} /\ Q[q].user = u
                      THEN [Q[q] EXCEPT !.st = "matched", !.mw = mw] ELSE Q[q]]

\* calls of u with status 'active' or 'connecting' (the 30 s window is open)
OpenCalls(u) == {c \in 1..Len(calls) : (calls[c].user1 = u \/ calls[c].user2 = u)
                                        /\ calls[c].status \in {"active", "connecting"}}

\* calls .eq('user1_id', v).eq('user2_id', u) with status 'active' or 'connecting'
CallsBy(v, u) == {c \in OpenCalls(u) : calls[c].user1 = v /\ calls[c].user2 = u}

\* the slots of u in which no attemptMatch is in progress
FreeAttempts(u) == {s \in DOMAIN tick[u] : s # PushSlot /\ tick[u][s].pc = "idle"}

\* attemptMatch returns: isProcessingRef.current = false
Returned(u, s) == [tick EXCEPT ![u][s] = IdleTick]

\* startMatching (460-530): the refs are reset, old entries deleted, the row
\* inserted, the channel subscribed, the 2 s interval started and
\* attemptMatch called at once
startMatching_tieBreak(u, d) ==
  /\ screen[u] = "setup"
  /\ screen' = [screen EXCEPT ![u] = "waiting"]
  /\ ~ust[u].isSearching /\ ~ref[u].hasMatched
  /\ CanInsertRow /\ FreeAttempts(u) # {}
  /\ queue' = [DeleteByUser(u) EXCEPT ![NextQId] =
                  [st |-> "waiting", user |-> u, dur |-> d, mw |-> 0, old |-> FALSE]]
  /\ usersTbl' = [usersTbl EXCEPT ![u].status = "in_queue"]
  /\ ust' = [ust EXCEPT ![u].isSearching = TRUE, ![u].queueId = NextQId, ![u].duration = d]
  /\ subs' = [subs EXCEPT ![u] = @ \cup {NextQId}]
  /\ intervals' = [intervals EXCEPT ![u] = @ \cup {NextQId}]
  /\ ref' = [ref EXCEPT ![u].poll = NextQId, ![u].channel = NextQId, ![u].hasMatched = FALSE,
                        ![u].isMatching = TRUE]
  /\ tick' = [tick EXCEPT ![u][Min(FreeAttempts(u))] = [IdleTick EXCEPT !.pc = "scan"]]
  /\ UNCHANGED <<calls, notif, timeouts, startP, cancelP>>
  /\ UNCHANGED <<svars, cvars, hvars, avars>>

\* the interval fires attemptMatch (256-274): it returns at once when the
\* participant has matched or isProcessingRef is set
attemptMatch(u) ==
  /\ intervals[u] # {}
  /\ ~ref[u].hasMatched /\ ~ref[u].isMatching
  /\ FreeAttempts(u) # {}
  /\ ref' = [ref EXCEPT ![u].isMatching = TRUE]
  /\ tick' = [tick EXCEPT ![u][Min(FreeAttempts(u))] = [IdleTick EXCEPT !.pc = "scan"]]
  /\ UNCHANGED <<screen, queue, calls, usersTbl, notif, ust, intervals, subs, timeouts, startP, cancelP>>
  /\ UNCHANGED <<svars, cvars, hvars, avars>>

\* the scan returns (276-293, 330-334, 374-377): a fetch error, nobody
\* waiting, or the tie-break on the ids
attemptMatch_scan(u, s, ok) ==
  /\ s # PushSlot /\ tick[u][s].pc = "scan"
  /\ LET W == WaitingOthers(u, ust[u].duration) IN
     IF ~ok THEN /\ tick' = Returned(u, s)
                 /\ ref' = [ref EXCEPT ![u].isMatching = FALSE]
     ELSE IF W = {} THEN /\ tick' = [tick EXCEPT ![u][s].pc = "existing"]
                         /\ UNCHANGED ref
     ELSE IF ~(u < queue[Min(W)].user)
     THEN /\ tick' = [tick EXCEPT ![u][s].pc = "partnerCall", ![u][s].cand = Min(W),
                                   ![u][s].candUser = queue[Min(W)].user]
          /\ UNCHANGED ref
     ELSE IF ref[u].hasMatched
     THEN /\ tick' = Returned(u, s)
          /\ ref' = [ref EXCEPT ![u].isMatching = FALSE]
     ELSE /\ tick' = [tick EXCEPT ![u][s].pc = "check", ![u][s].cand = Min(W),
                                   ![u][s].candUser = queue[Min(W)].user]
          /\ UNCHANGED ref
  /\ UNCHANGED <<screen, queue, calls, usersTbl, notif, ust, intervals, subs, timeouts, startP, cancelP>>
  /\ UNCHANGED <<svars, cvars, hvars, avars>>

\* a Session was found for u: the local matched state is set and the update
\* of the own entry is issued (308-326, 350-368)
foundCall(u, s, c, partner, w) ==
  /\ ref' = [ref EXCEPT ![u].hasMatched = TRUE, ![u].poll = 0]
  /\ ust' = [ust EXCEPT ![u].matchedCall = c, ![u].isSearching = FALSE]
  /\ intervals' = ClearedIntervals(u)
  /\ tick' = [tick EXCEPT ![u][s].pc = "selfUpdate", ![u][s].candUser = partner,
                           ![u][s].call = c, ![u][s].pend = {w}, ![u][s].qid = ust[u].queueId]

\* nobody is waiting: is there a Session that references u? (295-328)
attemptMatch_existing(u, s) ==
  /\ s # PushSlot /\ tick[u][s].pc = "existing"
  /\ IF OpenCalls(u) # {} /\ ~ref[u].hasMatched
     THEN LET c == Max(OpenCalls(u)) IN
          foundCall(u, s, c, IF calls[c].user1 = u THEN calls[c].user2 ELSE calls[c].user1, "byUser")
     ELSE /\ tick' = Returned(u, s)
          /\ ref' = [ref EXCEPT ![u].isMatching = FALSE]
          /\ UNCHANGED <<ust, intervals>>
  /\ UNCHANGED <<screen, queue, calls, usersTbl, notif, subs, timeouts, startP, cancelP>>
  /\ UNCHANGED <<svars, cvars, hvars, avars>>

\* u has the larger id: has the partner created the Session? (333-373)
attemptMatch_partnerCall(u, s) ==
  /\ s # PushSlot /\ tick[u][s].pc = "partnerCall"
  /\ IF CallsBy(tick[u][s].candUser, u) # {} /\ ~ref[u].hasMatched
     THEN foundCall(u, s, Max(CallsBy(tick[u][s].candUser, u)), tick[u][s].candUser, "byId")
     ELSE /\ tick' = Returned(u, s)
          /\ ref' = [ref EXCEPT ![u].isMatching = FALSE]
          /\ UNCHANGED <<ust, intervals>>
  /\ UNCHANGED <<screen, queue, calls, usersTbl, notif, subs, timeouts, startP, cancelP>>
  /\ UNCHANGED <<svars, cvars, hvars, avars>>

\* the update of u's own entry after a Session was found (319-326, 361-368)
attemptMatch_selfUpdate(u, s) ==
  /\ s # PushSlot /\ tick[u][s].pc = "selfUpdate"
  /\ LET Q == IF tick[u][s].pend = {"byUser"}
              THEN MatchedByUser(queue, u, tick[u][s].candUser)
              ELSE UpdatedQueue(queue, tick[u][s].qid, "matched", tick[u][s].candUser)
     IN /\ queue' = Q
        /\ notif' = notif \cup UNION {UpdateFeed(Q, q) : q \in {p \in DOMAIN Q : Q[p] # queue[p]}}
  /\ tick' = Returned(u, s)
  /\ ref' = [ref EXCEPT ![u].isMatching = FALSE]
  /\ UNCHANGED <<screen, calls, usersTbl, ust, intervals, subs, timeouts, startP, cancelP>>
  /\ UNCHANGED <<svars, cvars, hvars, avars>>

\* u has the smaller id: the partner's entry is read again (379-391)
attemptMatch_check(u, s) ==
  /\ s # PushSlot /\ tick[u][s].pc = "check"
  /\ IF Exists(tick[u][s].cand) /\ queue[tick[u][s].cand].st = "waiting"
     THEN /\ ref' = [ref EXCEPT ![u].hasMatched = TRUE]
          /\ tick' = [tick EXCEPT ![u][s].pc = "insert"]
     ELSE /\ tick' = Returned(u, s)
          /\ ref' = [ref EXCEPT ![u].isMatching = FALSE]
  /\ UNCHANGED <<screen, queue, calls, usersTbl, notif, ust, intervals, subs, timeouts, startP, cancelP>>
  /\ UNCHANGED <<svars, cvars, hvars, avars>>

\* the calls insert, status 'active' (393-412); the four updates are issued
\* with the queueEntryIdRef of that moment (416-435)
attemptMatch_insert(u, s) ==
  /\ s # PushSlot /\ tick[u][s].pc = "insert"
  /\ \/ /\ Len(calls) < MaxCalls
        /\ calls' = Append(calls, [user1 |-> u, user2 |-> tick[u][s].candUser, status |-> "active"])
        /\ tick' = [tick EXCEPT ![u][s].pc = "update", ![u][s].call = Len(calls) + 1,
                                 ![u][s].qid = ust[u].queueId,
                                 ![u][s].pend = {"ours", "theirs", "usersOurs", "usersTheirs"}]
        /\ UNCHANGED ref
     \/ /\ ref' = [ref EXCEPT ![u].hasMatched = FALSE, ![u].isMatching = FALSE]
        /\ tick' = Returned(u, s)
        /\ UNCHANGED calls
  /\ UNCHANGED <<screen, queue, usersTbl, notif, ust, intervals, subs, timeouts, startP, cancelP>>
  /\ UNCHANGED <<svars, cvars, hvars, avars>>

\* Promise.allSettled of the four updates (416-437), each on its own; after
\* all of them setMatchedCall and the interval is cleared (439-447)
attemptMatch_update(u, s, w) ==
  /\ s # PushSlot /\ tick[u][s].pc = "update"
  /\ w \in tick[u][s].pend
  /\ LET q == IF w = "ours" THEN tick[u][s].qid ELSE tick[u][s].cand
         mw == IF w = "ours" THEN tick[u][s].candUser ELSE u
         Q == IF w \in {"ours", "theirs"} THEN UpdatedQueue(queue, q, "matched", mw) ELSE queue
     IN /\ queue' = Q
        /\ notif' = IF w \in {"ours", "theirs"} THEN notif \cup UpdateFeed(Q, q) ELSE notif
  /\ usersTbl' = IF w = "usersOurs" THEN [usersTbl EXCEPT ![u].status = "in_call"]
                 ELSE IF w = "usersTheirs"
                 THEN [usersTbl EXCEPT ![tick[u][s].candUser].status = "in_call"]
                 ELSE usersTbl
  /\ IF tick[u][s].pend = {w}
     THEN /\ ust' = [ust EXCEPT ![u].matchedCall = tick[u][s].call, ![u].isSearching = FALSE]
          /\ intervals' = ClearedIntervals(u)
          /\ ref' = [ref EXCEPT ![u].poll = 0, ![u].isMatching = FALSE]
          /\ tick' = Returned(u, s)
     ELSE /\ tick' = [tick EXCEPT ![u][s].pend = @ \ {w}]
          /\ UNCHANGED <<ust, ref, intervals>>
  /\ UNCHANGED <<screen, calls, subs, timeouts, startP, cancelP>>
  /\ UNCHANGED <<svars, cvars, hvars, avars>>

\* handleQueueUpdate (219-254): the push callback of the own entry
handleQueueUpdate(n) ==
  /\ n \in notif
  /\ n.qid \in subs[n.user]
  /\ tick[n.user][PushSlot].pc = "idle"
  /\ notif' = notif \ {n}
  /\ IF ~ref[n.user].hasMatched /\ n.st = "matched" /\ n.mw # 0
     THEN /\ intervals' = ClearedIntervals(n.user)
          /\ ref' = [ref EXCEPT ![n.user].hasMatched = TRUE, ![n.user].poll = 0]
          /\ tick' = [tick EXCEPT ![n.user][PushSlot].pc = "loadCall"]
     ELSE UNCHANGED <<intervals, ref, tick>>
  /\ UNCHANGED <<screen, queue, calls, usersTbl, ust, subs, timeouts, startP, cancelP>>
  /\ UNCHANGED <<svars, cvars, hvars, avars>>

\* ... its query of the newest Session of u returns (235-252)
handleQueueUpdate_then(u) ==
  /\ tick[u][PushSlot].pc = "loadCall"
  /\ ust' = IF OpenCalls(u) # {}
            THEN [ust EXCEPT ![u].matchedCall = Max(OpenCalls(u)), ![u].isSearching = FALSE]
            ELSE ust
  /\ tick' = [tick EXCEPT ![u][PushSlot] = IdleTick]
  /\ UNCHANGED <<screen, queue, calls, usersTbl, notif, ref, intervals, subs, timeouts, startP, cancelP>>
  /\ UNCHANGED <<svars, cvars, hvars, avars>>

\* cancelMatching (532-548), from the Cancel button of the waiting screen:
\* the local state is reset, then the deletes and updates are awaited
cancelMatching_tieBreak(u) ==
  /\ screen[u] = "waiting"
  /\ screen' = [screen EXCEPT ![u] = "setup"]
  /\ FreeCancels(u) # {}
  /\ ust' = [ust EXCEPT ![u].matchedCall = NoCall, ![u].isSearching = FALSE]
  /\ cancelP' = [cancelP EXCEPT ![u][Min(FreeCancels(u))].pc = "delete"]
  /\ UNCHANGED <<queue, calls, usersTbl, notif, ref, intervals, subs, timeouts, startP, tick>>
  /\ UNCHANGED <<svars, cvars, hvars, avars>>

\* .delete().eq('user_id', userId) executes (540)
cancelMatching_delete(u, p) ==
  /\ cancelP[u][p].pc = "delete"
  /\ queue' = DeleteByUser(u)
  /\ cancelP' = [cancelP EXCEPT ![u][p].pc = "users"]
  /\ UNCHANGED <<screen, calls, usersTbl, notif, ref, ust, intervals, subs, timeouts, startP, tick>>
  /\ UNCHANGED <<svars, cvars, hvars, avars>>

\* the refs cleanup resets at its end (208-215)
CleanedRefs(u) == [ref EXCEPT ![u].poll = 0, ![u].hasMatched = FALSE, ![u].isMatching = FALSE]

\* the users update executes (541-544); then cleanup() clears the interval
\* and, with an entry id in the ref, awaits its delete (189-205)
cancelMatching_users(u, p) ==
  /\ cancelP[u][p].pc = "users"
  /\ usersTbl' = [usersTbl EXCEPT ![u].status = "online"]
  /\ intervals' = ClearedIntervals(u)
  /\ IF ust[u].queueId # NoRow
     THEN /\ cancelP' = [cancelP EXCEPT ![u][p] = [pc |-> "cleanup", qid |-> ust[u].queueId]]
          /\ ref' = [ref EXCEPT ![u].poll = 0]
          /\ UNCHANGED ust
     ELSE /\ cancelP' = [cancelP EXCEPT ![u][p] = IdleCancel]
          /\ ref' = CleanedRefs(u)
          /\ ust' = [ust EXCEPT ![u].isSearching = FALSE]
  /\ UNCHANGED <<screen, queue, calls, notif, subs, timeouts, startP, tick>>
  /\ UNCHANGED <<svars, cvars, hvars, avars>>

\* cleanup's delete of the entry executes; the refs are reset (197-215)
cleanup_delete(u, p) ==
  /\ cancelP[u][p].pc = "cleanup"
  /\ queue' = [queue EXCEPT ![cancelP[u][p].qid] = IF Exists(cancelP[u][p].qid) THEN GoneRow ELSE @]
  /\ ust' = [ust EXCEPT ![u].queueId = NoRow, ![u].isSearching = FALSE]
  /\ ref' = CleanedRefs(u)
  /\ cancelP' = [cancelP EXCEPT ![u][p] = IdleCancel]
  /\ UNCHANGED <<screen, calls, usersTbl, notif, intervals, subs, timeouts, startP, tick>>
  /\ UNCHANGED <<svars, cvars, hvars, avars>>

TieNext ==
  \/ \E u \in Users : openSetup(u)
  \/ \E u \in Users, d \in Durations : startMatching_tieBreak(u, d)
  \/ \E u \in Users : attemptMatch(u)
  \/ \E u \in Users : \E s \in DOMAIN tick[u], ok \in BOOLEAN : attemptMatch_scan(u, s, ok)
  \/ \E u \in Users : \E s \in DOMAIN tick[u] : attemptMatch_existing(u, s)
  \/ \E u \in Users : \E s \in DOMAIN tick[u] : attemptMatch_partnerCall(u, s)
  \/ \E u \in Users : \E s \in DOMAIN tick[u] : attemptMatch_selfUpdate(u, s)
  \/ \E u \in Users : \E s \in DOMAIN tick[u] : attemptMatch_check(u, s)
  \/ \E u \in Users : \E s \in DOMAIN tick[u] : attemptMatch_insert(u, s)
  \/ \E u \in Users : \E s \in DOMAIN tick[u], w \in {"ours", "theirs", "usersOurs", "usersTheirs"} :
        attemptMatch_update(u, s, w)
  \/ \E n \in notif : handleQueueUpdate(n)
  \/ \E u \in Users : handleQueueUpdate_then(u)
  \/ \E n \in notif : losePush(n)
  \/ \E u \in Users : showCall(u)

\* one requester (user 1) of this variant who starts, cancels and starts again
\* while nobody else is waiting
TieRestartNext ==
  \/ openSetup(1)
  \/ \E d \in Durations : startMatching_tieBreak(1, d)
  \/ attemptMatch(1)
  \/ \E s \in DOMAIN tick[1], ok \in BOOLEAN : attemptMatch_scan(1, s, ok)
  \/ \E s \in DOMAIN tick[1] : attemptMatch_existing(1, s)
  \/ cancelMatching_tieBreak(1)
  \/ \E p \in DOMAIN cancelP[1] : cancelMatching_delete(1, p)
  \/ \E p \in DOMAIN cancelP[1] : cancelMatching_users(1, p)
  \/ \E p \in DOMAIN cancelP[1] : cleanup_delete(1, p)

(***************************************************************************)
(* Signaling of one participant: startPolling and handleSignal             *)
(* (useWebRTC.ts 241-364; the push + poll variant is useLiveStats.ts       *)
(* 282-491).  A message's id is its position in webrtc_signals; a          *)
(* candidate's payload is identified with the id of the message carrying   *)
(* it.                                                                     *)
(***************************************************************************)
MaxSignals == 3            \* rows the partner inserts into webrtc_signals
MaxHandlers == 2           \* callbacks of one participant that overlap
MaxPolls == 2              \* firings of the 1 s polling interval
SeenCap == 50              \* processedSignalsRef is trimmed above this size
EvictCount == 25           \* ... by deleting this many of the oldest ids

SigIds == 1..MaxSignals
Handlers == 1..MaxHandlers
SignalTypes == {"offer", "answer", "ice-candidate"}
NoDesc == 0

Range(f) == {f[x] : x \in DOMAIN f}

IdleHandler == [pc |-> "idle", via |-> "none", n |-> 0, i |-> 0, cur |-> 0,
                arr |-> <<>>, j |-> 0, acted |-> FALSE]

\* refs of the hook, the peer connection, and a record of what was done
SigState(hook) ==
  [hook      |-> hook,
   polling   |-> hook = "useWebRTC",   \* pollingIntervalRef: initializeCall starts it (206)
   joined    |-> FALSE,                \* the realtime channel is subscribed
   polls     |-> 0,
   processed |-> <<>>,                 \* processedSignalsRef, in insertion order
   last      |-> 0,                    \* lastProcessedSignalRef
   iceQueue  |-> <<>>,                 \* iceCandidateQueueRef
   remote    |-> NoDesc,               \* peerConnection.remoteDescription
   applied   |-> <<>>,                 \* setRemoteDescription calls that succeeded
   added     |-> {},                   \* candidates handed to addIceCandidate
   sent      |-> 0,                    \* answers inserted into webrtc_signals
   buffered  |-> {},                   \* candidates ever pushed to iceCandidateQueueRef
   eff       |-> [m \in SigIds |-> 0], \* invocations of handleSignal(m) that changed Sem
   push      |-> {}]                   \* INSERT events not yet delivered

\* the participant's signaling state the protocol is about
Sem(S) == <<S.remote, S.iceQueue, S.added, S.sent>>

\* bookkeeping: the invocation handling m changed Sem for the first time
Account(S0, S1, m, acted) ==
  IF Sem(S1) # Sem(S0) /\ ~acted
  THEN [S |-> [S1 EXCEPT !.eff[m] = IF @ < 2 THEN @ + 1 ELSE @], acted |-> TRUE]
  ELSE [S |-> S1, acted |-> acted]

\* a dedup step that records the id and never trims the set
markProcessed_keepAll(S, m) ==
  IF m \in Range(S.processed) THEN [skip |-> TRUE, S |-> S]
  ELSE [skip |-> FALSE, S |-> [S EXCEPT !.processed = Append(@, m)]]

\* useWebRTC.ts 276-286: skip a seen id; else record it and trim the set
markProcessed(S, m) ==
  IF m \in Range(S.processed)
  THEN [skip |-> TRUE, S |-> S]
  ELSE LET P == Append(S.processed, m) IN
       [skip |-> FALSE,
        S |-> [S EXCEPT !.processed = IF Len(P) > SeenCap
                                      THEN SubSeq(P, EvictCount + 1, Len(P)) ELSE P]]

\* useLiveStats.ts 405-413: the same check and trim, but the id is not recorded
markProcessed_useLiveStats(S, m) ==
  IF m \in Range(S.processed)
  THEN [skip |-> TRUE, S |-> S]
  ELSE [skip |-> FALSE,
        S |-> [S EXCEPT !.processed = IF Len(@) > SeenCap
                                      THEN SubSeq(@, EvictCount + 1, Len(@)) ELSE @]]

\* a candidate that arrives before the remote description drops out
queueCandidate_drop(S, m) == S

\* iceCandidateQueueRef.current.push(signalData) (358)
queueCandidate(S, m) == [S EXCEPT !.iceQueue = Append(@, m)]

\* a handler that records the id of an offer or answer and drops it
handleSignal_dropDescription(S, m) ==
  LET T == markProcessed(S, m).S IN
  IF signals[m].type \in {"offer", "answer"} THEN [S |-> T, pc |-> "done"]
  ELSE [S |-> queueCandidate(T, m), pc |-> "done"]

\* handleSignal up to its first await (271-300, 328-336, 350-359)
handleSignal(S, m) ==
  LET d == IF S.hook = "useWebRTC" THEN markProcessed(S, m) ELSE markProcessed_useLiveStats(S, m)
      T == d.S
  IN IF d.skip THEN [S |-> S, pc |-> "done"]
     ELSE IF signals[m].type \in {"offer", "answer"}
     THEN IF T.remote # NoDesc THEN [S |-> T, pc |-> "done"] ELSE [S |-> T, pc |-> "setRemote"]
     ELSE IF T.remote # NoDesc
     THEN [S |-> [T EXCEPT !.added = @ \cup {m}], pc |-> "addIce"]
     ELSE [S |-> [queueCandidate(T, m) EXCEPT !.buffered = @ \cup {m}], pc |-> "done"]

\* the same with the bookkeeping of Account
invoke(S, m) ==
  LET r == handleSignal(S, m)
      a == Account(S, r.S, m, FALSE)
  IN [S |-> a.S, pc |-> r.pc, acted |-> a.acted]

\* the for loop of the polling callback from message i on (256-263), run until
\* a handleSignal awaits or the n fetched messages are exhausted
RECURSIVE pollLoop(_, _, _)
pollLoop(S, n, i) ==
  IF i > n THEN [S |-> S, h |-> IdleHandler]
  ELSE IF S.last = i THEN pollLoop(S, n, i + 1)
  ELSE LET r == invoke(S, i) IN
       IF r.pc = "done" THEN pollLoop([r.S EXCEPT !.last = i], n, i + 1)
       ELSE [S |-> r.S, h |-> [IdleHandler EXCEPT !.pc = r.pc, !.via = "poll", !.n = n,
                                                  !.i = i, !.cur = i, !.acted = r.acted]]

\* handleSignal returned to its caller: the polling loop goes on, the push
\* callback ends
return(S, h) ==
  IF h.via = "poll" THEN pollLoop([S EXCEPT !.last = h.cur], h.n, h.i + 1)
  ELSE [S |-> S, h |-> IdleHandler]

\* bookkeeping for a step of the invocation in handler record h
own(S0, S1, h) ==
  LET a == Account(S0, S1, h.cur, h.acted) IN [S |-> a.S, h |-> [h EXCEPT !.acted = a.acted]]

\* after the flush: iceCandidateQueueRef.current = [] (312, 348), then the
\* offer branch goes on to answer
afterFlush(S, h) ==
  LET o == own(S, [S EXCEPT !.iceQueue = <<>>], h) IN
  IF signals[h.cur].type = "offer"
  THEN [S |-> o.S, h |-> [o.h EXCEPT !.pc = "answer", !.arr = <<>>, !.j = 0]]
  ELSE return(o.S, o.h)

\* an offer branch that answers without flushing the queue
startFlush_skip(S, h) == afterFlush(S, h)

\* the flush loop starts on the queue as it is now (304, 340): the first
\* queued candidate is handed to addIceCandidate
startFlush(S, h) ==
  IF S.iceQueue = <<>> THEN afterFlush(S, h)
  ELSE LET o == own(S, [S EXCEPT !.added = @ \cup {S.iceQueue[1]}], h) IN
       [S |-> o.S, h |-> [o.h EXCEPT !.pc = "flush", !.arr = S.iceQueue, !.j = 1]]

\* the partner (or a re-mounted partner hook) inserts a row; the store
\* announces it on the channel when the participant is subscribed
peerSends(t) ==
  /\ sig.hook # "none"
  /\ Len(signals) < MaxSignals
  /\ signals' = Append(signals, [type |-> t])
  /\ sig' = [sig EXCEPT !.push = IF sig.joined THEN @ \cup {Len(signals) + 1} ELSE @]
  /\ UNCHANGED hs
  /\ UNCHANGED <<mvars, cvars, hvars, avars>>

\* the polling interval fires and its select executes (246-263)
pollSignals(k) ==
  /\ sig.polling /\ sig.polls < MaxPolls
  /\ hs[k].pc = "idle"
  /\ LET r == pollLoop([sig EXCEPT !.polls = @ + 1], Len(signals), 1) IN
     /\ sig' = r.S
     /\ hs' = [hs EXCEPT ![k] = r.h]
  /\ UNCHANGED signals
  /\ UNCHANGED <<mvars, cvars, hvars, avars>>

\* setRemoteDescription settles (300, 336): resolved, the description is set
\* and the flush starts; rejected, the catch block ends handleSignal (361)
setRemoteDescription(k, ok) ==
  /\ hs[k].pc = "setRemote"
  /\ LET m == hs[k].cur
         o == own(sig, [sig EXCEPT !.remote = m, !.applied = Append(@, m)], hs[k])
         r == IF ok THEN startFlush(o.S, o.h) ELSE return(sig, hs[k])
     IN /\ sig' = r.S
        /\ hs' = [hs EXCEPT ![k] = r.h]
  /\ UNCHANGED signals
  /\ UNCHANGED <<mvars, cvars, hvars, avars>>

\* addIceCandidate of a queued candidate settles (306, 342); the loop hands
\* over the next one or ends
flushQueued(k) ==
  /\ hs[k].pc = "flush"
  /\ LET h == hs[k]
         o == own(sig, [sig EXCEPT !.added = @ \cup {h.arr[h.j + 1]}], h)
         r == IF h.j < Len(h.arr)
              THEN [S |-> o.S, h |-> [o.h EXCEPT !.j = @ + 1]]
              ELSE afterFlush(sig, h)
     IN /\ sig' = r.S
        /\ hs' = [hs EXCEPT ![k] = r.h]
  /\ UNCHANGED signals
  /\ UNCHANGED <<mvars, cvars, hvars, avars>>

\* createAnswer, setLocalDescription and the insert of the answer (314-327)
sendAnswer(k) ==
  /\ hs[k].pc = "answer"
  /\ LET o == own(sig, [sig EXCEPT !.sent = @ + 1], hs[k])
         r == return(o.S, o.h)
     IN /\ sig' = r.S
        /\ hs' = [hs EXCEPT ![k] = r.h]
  /\ UNCHANGED signals
  /\ UNCHANGED <<mvars, cvars, hvars, avars>>

\* addIceCandidate of a candidate that arrived after the description settles (354)
addIceCandidate(k) ==
  /\ hs[k].pc = "addIce"
  /\ LET r == return(sig, hs[k]) IN
     /\ sig' = r.S
     /\ hs' = [hs EXCEPT ![k] = r.h]
  /\ UNCHANGED signals
  /\ UNCHANGED <<mvars, cvars, hvars, avars>>

\* useLiveStats.ts: the channel reaches SUBSCRIBED (299-308)
channelJoined ==
  /\ sig.hook = "useLiveStats" /\ ~sig.joined
  /\ sig' = [sig EXCEPT !.joined = TRUE]
  /\ UNCHANGED <<signals, hs>>
  /\ UNCHANGED <<mvars, cvars, hvars, avars>>

\* useLiveStats.ts: the 3 s backup timer finds the channel not joined, or the
\* channel reports CHANNEL_ERROR / TIMED_OUT (302-304, 312-317, 370-371)
startPolling ==
  /\ sig.hook = "useLiveStats" /\ ~sig.joined /\ ~sig.polling
  /\ sig' = [sig EXCEPT !.polling = TRUE]
  /\ UNCHANGED <<signals, hs>>
  /\ UNCHANGED <<mvars, cvars, hvars, avars>>

\* useLiveStats.ts: the channel's INSERT callback (294-297)
signalPush(k, m) ==
  /\ m \in sig.push
  /\ hs[k].pc = "idle"
  /\ LET r == invoke([sig EXCEPT !.push = @ \ {m}], m) IN
     /\ sig' = r.S
     /\ hs' = [hs EXCEPT ![k] = IF r.pc = "done" THEN IdleHandler
                                ELSE [IdleHandler EXCEPT !.pc = r.pc, !.via = "push", !.cur = m,
                                                         !.acted = r.acted]]
  /\ UNCHANGED signals
  /\ UNCHANGED <<mvars, cvars, hvars, avars>>

\* push delivery is not guaranteed
signalPushLost(m) ==
  /\ m \in sig.push
  /\ sig' = [sig EXCEPT !.push = @ \ {m}]
  /\ UNCHANGED <<signals, hs>>
  /\ UNCHANGED <<mvars, cvars, hvars, avars>>

\* the polling interval fires, as it does every second while the hook is
\* mounted (246-263)
startPolling_tick(k) ==
  /\ sig.polling
  /\ hs[k].pc = "idle"
  /\ LET r == pollLoop(sig, Len(signals), 1) IN
     /\ sig' = r.S
     /\ hs' = [hs EXCEPT ![k] = r.h]
  /\ UNCHANGED signals
  /\ UNCHANGED <<mvars, cvars, hvars, avars>>

\* a participant that keeps polling while the partner's messages arrive in
\* any order and number, and whose media engine accepts the descriptions
SignalLiveNext ==
  \/ \E t \in SignalTypes : peerSends(t)
  \/ \E k \in Handlers : startPolling_tick(k)
  \/ \E k \in Handlers : setRemoteDescription(k, TRUE)
  \/ \E k \in Handlers : flushQueued(k)
  \/ \E k \in Handlers : sendAnswer(k)
  \/ \E k \in Handlers : addIceCandidate(k)

\* one step of a handler that is waiting on the media engine or the insert
handlerStep ==
  \E k \in Handlers :
     setRemoteDescription(k, TRUE) \/ flushQueued(k) \/ sendAnswer(k) \/ addIceCandidate(k)

\* the state predicates under which a tick that changes something, and a
\* handler step, can happen
tickEnabled ==
  \E k \in Handlers :
     /\ sig.polling /\ hs[k].pc = "idle"
     /\ LET r == pollLoop(sig, Len(signals), 1) IN r.S # sig \/ r.h # hs[k]
stepEnabled == \E k \in Handlers : hs[k].pc \in {"setRemote", "flush", "answer", "addIce"}

\* the interval keeps firing and every awaited call settles: weak fairness
\* of the tick and of the handler steps, WF_vars(A) written out as
\* []<>~ENABLED <<A>>_vars \/ []<><<A>>_vars with the enabling conditions as
\* the state predicates above
SignalFair ==
  /\ []<>(~tickEnabled) \/ []<><<\E k \in Handlers : startPolling_tick(k)>>_vars
  /\ []<>(~stepEnabled) \/ []<><<handlerStep>>_vars

SignalNext ==
  \/ \E t \in SignalTypes : peerSends(t)
  \/ \E k \in Handlers : pollSignals(k)
  \/ \E k \in Handlers, ok \in BOOLEAN : setRemoteDescription(k, ok)
  \/ \E k \in Handlers : flushQueued(k)
  \/ \E k \in Handlers : sendAnswer(k)
  \/ \E k \in Handlers : addIceCandidate(k)

SignalPushNext ==
  \/ SignalNext
  \/ channelJoined
  \/ startPolling
  \/ \E k \in Handlers, m \in SigIds : signalPush(k, m)
  \/ \E m \in SigIds : signalPushLost(m)

\* a long-lived poll loop: message ids arrive in the order of their creation
\* and the ids of ReplayIds are fetched again and again
MaxSeenIds == 54
ReplayIds == {1, 2, 3}

\* handleSignal's dedup and eviction on message id m (useWebRTC.ts 274-286;
\* useLiveStats.ts 403-413); the rest of handleSignal leaves the set alone
handleSignal_dedup(m) ==
  /\ sig' = IF sig.hook = "useWebRTC" THEN markProcessed(sig, m).S
            ELSE markProcessed_useLiveStats(sig, m).S
  /\ UNCHANGED <<signals, hs>>
  /\ UNCHANGED <<mvars, cvars, hvars, avars>>

\* the newest id handled so far
Newest == Max(Range(sig.processed) \cup {0})

SeenNext ==
  \E m \in 1..MaxSeenIds :
     /\ m = Newest + 1 \/ (m \in ReplayIds /\ m <= Newest)
     /\ handleSignal_dedup(m)

SigOff ==
  /\ signals = <<>>
  /\ sig = SigState("none")
  /\ hs = [k \in Handlers |-> IdleHandler]

(***************************************************************************)
(* The call in progress: the mounted useWebRTC hook (useWebRTC.ts 25-203,  *)
(* variant useLiveStats.ts 98-276), page unload and the rating screen      *)
(***************************************************************************)
\* the setup screen's choices of minutes (App.tsx 534) and the seconds in one
DurationChoices == {3, 10}
SecondsPerMinute == 60

\* useState<number>(10) and useState<number>(0) (App.tsx 33-34)
AppState == [callTimer |-> 0, duration |-> 10]
AppOff == [u \in Users |-> AppState]

NoHook == [hook |-> "none", call |-> NoCall, conn |-> "closed", isConnected |-> FALSE,
           tracks |-> FALSE, pcOpen |-> FALSE, polling |-> FALSE, timer |-> FALSE,
           writes |-> {}, timedOut |-> FALSE, everConnected |-> FALSE]

\* the hook after its effect ran and initializeCall set up media and the
\* peer connection for call c
Mounted(hook, c) == [NoHook EXCEPT !.hook = hook, !.call = c, !.conn = "new", !.tracks = TRUE,
                                   !.pcOpen = TRUE, !.polling = (hook = "useWebRTC"),
                                   !.timer = TRUE]

\* connectionState changes the browser's engine makes on an open connection
ConnSteps == {<<"new", "connecting">>, <<"connecting", "connected">>, <<"connecting", "failed">>,
              <<"connected", "disconnected">>, <<"disconnected", "connected">>,
              <<"disconnected", "failed">>}

\* the store writes the handler of the variant issues (useLiveStats.ts 255-274)
StatusFor(s) == IF s = "connected" THEN {"active"}
                ELSE IF s \in {"failed", "disconnected", "closed"} THEN {"ended"} ELSE {}

\* peerConnection.onconnectionstatechange (useWebRTC.ts 193-203;
\* useLiveStats.ts 249-276 also writes the Session's status)
onconnectionstatechange(u, s) ==
  /\ rtc[u].pcOpen
  /\ <<rtc[u].conn, s>> \in ConnSteps
  /\ rtc' = [rtc EXCEPT ![u].conn = s,
                        ![u].isConnected = IF s = "connected" THEN TRUE
                                           ELSE IF s \in {"failed", "disconnected"} THEN FALSE ELSE @,
                        ![u].everConnected = @ \/ s = "connected",
                        ![u].writes = IF rtc[u].hook = "useLiveStats" THEN @ \cup StatusFor(s) ELSE @]
  /\ UNCHANGED cfeed
  /\ UNCHANGED <<mvars, svars, hvars, avars>>

\* an update of the variant's handler executes in the store: unconditional,
\* .eq('id', callId) only (useLiveStats.ts 255-261, 268-274)
statusWrite(u, st) ==
  /\ st \in rtc[u].writes
  /\ rtc' = [rtc EXCEPT ![u].writes = @ \ {st}]
  /\ calls' = [calls EXCEPT ![rtc[u].call].status = st]
  /\ cfeed' = cfeed \cup CallFeed(rtc[u].call, st, screen)
  /\ UNCHANGED <<queue, usersTbl, notif, screen, ref, ust, intervals, subs, timeouts, startP, cancelP, tick>>
  /\ UNCHANGED <<svars, hvars, avars>>

\* the page of user u goes away (tab closed, or reloaded into the landing
\* screen): handleBeforeUnload sends the beacon when a call is on screen
\* (App.tsx 184-202); everything the page held is released
unload(u, ok, alerted) ==
  LET c == ust[u].matchedCall
      beacon == c # NoCall /\ screen[u] = "call" /\ ok
  IN
  /\ screen' = [screen EXCEPT ![u] = "landing"]
  /\ calls' = IF beacon THEN [calls EXCEPT ![c].status = "ended"] ELSE calls
  /\ cfeed' = {n \in cfeed : n.user # u} \cup (IF beacon THEN CallFeed(c, "ended", screen') ELSE {})
  /\ ust' = [ust EXCEPT ![u] = [isSearching |-> FALSE, matchedCall |-> NoCall, queueId |-> NoRow,
                                duration |-> 0]]
  /\ ref' = [ref EXCEPT ![u] = [isMatching |-> FALSE, hasMatched |-> FALSE, poll |-> 0, channel |-> 0]]
  /\ intervals' = [intervals EXCEPT ![u] = {}]
  /\ subs' = [subs EXCEPT ![u] = {}]
  /\ timeouts' = {t \in timeouts : t.user # u}
  /\ startP' = [startP EXCEPT ![u] = [p \in DOMAIN startP[u] |-> IdleStart]]
  /\ cancelP' = [cancelP EXCEPT ![u] = [p \in DOMAIN cancelP[u] |-> IdleCancel]]
  /\ tick' = [tick EXCEPT ![u] = [s \in Procs |-> IdleTick]]
  /\ rtc' = [rtc EXCEPT ![u] = [NoHook EXCEPT !.timedOut = rtc[u].timedOut \/ alerted,
                                              !.everConnected = rtc[u].everConnected]]
  /\ UNCHANGED <<queue, usersTbl, notif>>
  /\ app' = [app EXCEPT ![u] = AppState]
  /\ UNCHANGED <<svars, hvars>>

\* the user closes or reloads the tab while the hook is mounted
handleBeforeUnload(u) ==
  /\ rtc[u].hook # "none"
  /\ \E ok \in BOOLEAN : unload(u, ok, FALSE)

\* the 30 s connectionTimeout fires (useWebRTC.ts 32-39): alert and reload
\* unless the connection is connected.  The variant tests the isConnected of
\* the render that armed the timer, which is false (useLiveStats.ts 105-111)
connectionTimeout(u) ==
  /\ rtc[u].timer
  /\ IF \/ rtc[u].hook = "useLiveStats"
        \/ ~rtc[u].pcOpen \/ rtc[u].conn # "connected"
     THEN \E ok \in BOOLEAN : unload(u, ok, TRUE)
     ELSE /\ rtc' = [rtc EXCEPT ![u].timer = FALSE]
          /\ UNCHANGED cfeed
          /\ UNCHANGED <<mvars, svars, hvars, avars>>

\* submitRating (App.tsx 368-403): a rating > 0 is written to the call's
\* row, the tracks are stopped, callTimer is reset and the landing screen is
\* shown; matchedCall and the hook stay as they are.  With rated false also
\* the "back to home" button (857-867) where callTimer does not matter
submitRating(u, rated) ==
  /\ screen[u] = "rating"
  /\ screen' = [screen EXCEPT ![u] = "landing"]
  /\ rtc' = [rtc EXCEPT ![u].tracks = FALSE]
  /\ cfeed' = IF rated /\ ust[u].matchedCall # NoCall
              THEN cfeed \cup CallFeed(ust[u].matchedCall, calls[ust[u].matchedCall].status, screen')
              ELSE cfeed
  /\ UNCHANGED <<queue, calls, usersTbl, notif, ref, ust, intervals, subs, timeouts, startP, cancelP, tick>>
  /\ app' = [app EXCEPT ![u].callTimer = 0]
  /\ UNCHANGED <<svars, hvars>>

\* the "back to home" button of the rating screen (App.tsx 857-867): the
\* tracks are stopped and the landing screen is shown; callTimer is kept
backToHome(u) ==
  /\ screen[u] = "rating"
  /\ screen' = [screen EXCEPT ![u] = "landing"]
  /\ rtc' = [rtc EXCEPT ![u].tracks = FALSE]
  /\ UNCHANGED <<queue, calls, usersTbl, notif, ref, ust, intervals, subs, timeouts, startP, cancelP, tick>>
  /\ UNCHANGED <<svars, cfeed, hvars, avars>>

\* a duration button of the setup screen (App.tsx 534-536)
setDuration(u, mins) ==
  /\ screen[u] = "setup"
  /\ app' = [app EXCEPT ![u].duration = mins]
  /\ UNCHANGED <<mvars, svars, cvars, hvars>>

\* the 1 s interval of the call timer effect, live while the call screen is
\* shown and isConnected (App.tsx 269-282)
callTick(u) ==
  /\ screen[u] = "call" /\ rtc[u].isConnected
  /\ app' = [app EXCEPT ![u].callTimer = IF @ >= app[u].duration * SecondsPerMinute THEN @ ELSE @ + 1]
  /\ UNCHANGED <<mvars, svars, cvars, hvars>>

\* the auto-end effect (App.tsx 217-222)
autoEnd(u) ==
  /\ app[u].callTimer >= app[u].duration * SecondsPerMinute /\ screen[u] = "call"
  /\ endCall(u)

\* one participant's call screen with its timer, hangup, the rating screen
\* and the way back through the setup screen
TimerNext ==
  \/ \E s \in {"connecting", "connected", "disconnected", "failed"} : onconnectionstatechange(1, s)
  \/ callTick(1)
  \/ autoEnd(1)
  \/ endCall(1)
  \/ \E rated \in BOOLEAN : submitRating(1, rated)
  \/ backToHome(1)
  \/ openSetup(1)
  \/ \E mins \in DurationChoices : setDuration(1, mins)
  \/ handleStartMatching(1, app[1].duration)
  \/ showCall(1)
  \/ \E n \in cfeed : callStatusPush(n)
  \/ \E n \in cfeed : callStatusPushLost(n)

CallNext ==
  \/ \E u \in Users, s \in {"connecting", "connected", "disconnected", "failed"} :
        onconnectionstatechange(u, s)
  \/ \E u \in Users : endCall(u)
  \/ \E n \in cfeed : callStatusPush(n)
  \/ \E n \in cfeed : callStatusPushLost(n)
  \/ \E u \in Users : handleBeforeUnload(u)
  \/ \E u \in Users : connectionTimeout(u)
  \/ \E u \in Users, rated \in BOOLEAN : submitRating(u, rated)

CallVariantNext ==
  \/ CallNext
  \/ \E u \in Users, st \in {"active", "ended"} : statusWrite(u, st)

\* both users matched on call 1, created by user 1, and on the call screen
InCall ==
  /\ queue = [q \in QIds |-> [st |-> "matched", user |-> q, dur |-> 10, mw |-> 3 - q, old |-> FALSE]]
  /\ calls = <<NewCall(1, 2)>>
  /\ usersTbl = [u \in Users |-> [fresh |-> TRUE, status |-> "online"]]
  /\ notif = {}
  /\ screen = [u \in Users |-> "call"]
  /\ ref = [u \in Users |-> [isMatching |-> FALSE, hasMatched |-> TRUE, poll |-> 0, channel |-> u]]
  /\ ust = [u \in Users |-> [isSearching |-> FALSE, matchedCall |-> 1, queueId |-> u, duration |-> 10]]
  /\ intervals = [u \in Users |-> {}]
  /\ subs = [u \in Users |-> IF u = 1 THEN {1} ELSE {}]
  /\ timeouts = {}
  /\ startP = [u \in Users |-> [p \in StartSlots |-> IdleStart]]
  /\ cancelP = [u \in Users |-> [p \in CancelSlots |-> IdleCancel]]
  /\ tick = [u \in Users |-> [s \in Procs |-> IdleTick]]

CallOff ==
  /\ rtc = [u \in Users |-> NoHook]
  /\ cfeed = {}
  /\ app = AppOff

(***************************************************************************)
(* The signaling hooks of both participants: who sends the offer           *)
(* (App.tsx 40-45; useWebRTC.ts 25-239; variant useLiveStats.ts 98-367)    *)
(***************************************************************************)
CallIds == 1..MaxCalls

\* one run of initializeCall: its position and whether its RTCPeerConnection
\* is open
IdleInit == [pc |-> "idle", open |-> FALSE]

\* no hook has run: callId is the call id the effect last ran for, pcRef the
\* run whose connection peerConnectionRef holds, offers the rows of type
\* offer in webrtc_signals
NegOff ==
  [callId |-> [u \in Users |-> NoCall], pcRef |-> [u \in Users |-> NoCall],
   run |-> [u \in Users |-> [c \in CallIds |-> IdleInit]], offers |-> <<>>]

\* the cleanup function: peerConnectionRef.current.close() (useWebRTC.ts 60-77)
closePeer(N, u) ==
  IF N.pcRef[u] = NoCall THEN N
  ELSE [N EXCEPT !.run[u][N.pcRef[u]].open = FALSE, !.pcRef[u] = NoCall]

\* matchedCall?.id, the hook's callId argument (App.tsx 40-45), has changed:
\* React runs the cleanup of the previous effect, then the effect, which
\* calls initializeCall (useWebRTC.ts 25-42, 107)
effect_callId(u) ==
  /\ ust[u].matchedCall # neg.callId[u]
  /\ LET c == ust[u].matchedCall
         N == [closePeer(neg, u) EXCEPT !.callId[u] = c]
     IN neg' = IF c = NoCall THEN N ELSE [N EXCEPT !.run[u][c].pc = "media"]
  /\ UNCHANGED <<mvars, svars, cvars, web, avars>>

\* getUserMedia settles (125-135); rejected, the catch block alerts and
\* leaves the page (224-238)
initializeCall_media(u, c, ok) ==
  /\ neg.run[u][c].pc = "media"
  /\ neg' = [neg EXCEPT !.run[u][c].pc = IF ok THEN "role" ELSE "gone"]
  /\ UNCHANGED <<mvars, svars, cvars, web, avars>>

\* every participant of the call takes the initiator's role
isInitiator_anyParticipant(u, c, ok) == ok /\ u \in {calls[c].user1, calls[c].user2}

\* isInitiator = call?.user1_id === userId, where call is what the read of
\* the calls row returned: null when the read failed (137-143)
isInitiator(u, c, ok) == ok /\ calls[c].user1 = u

\* the read of the calls row returns; the peer connection is created and
\* stored in the ref; the initiator calls createOffer (137-211)
initializeCall_role(u, c, ok) ==
  /\ neg.run[u][c].pc = "role"
  /\ neg' = [neg EXCEPT !.run[u][c] = [pc |-> IF isInitiator(u, c, ok) THEN "offer" ELSE "done",
                                       open |-> TRUE],
                        !.pcRef[u] = c]
  /\ UNCHANGED <<mvars, svars, cvars, web, avars>>

\* setLocalDescription and the insert of the offer (212-222); on a
\* connection that the cleanup has closed setLocalDescription throws
initializeCall_offer(u, c) ==
  /\ neg.run[u][c].pc = "offer"
  /\ neg' = IF neg.run[u][c].open
            THEN [neg EXCEPT !.run[u][c].pc = "done",
                             !.offers = Append(@, [call |-> c, sender |-> u])]
            ELSE [neg EXCEPT !.run[u][c].pc = "gone"]
  /\ UNCHANGED <<mvars, svars, cvars, web, avars>>

(***************************************************************************)
(* The effect of the signaling hook: mount, initializeCall and cleanup     *)
(* (useWebRTC.ts 25-239; variant useLiveStats.ts 98-367)                   *)
(***************************************************************************)
MaxMounts == 2
Gens == 1..MaxMounts
NoGen == 0

\* what one run of initializeCall holds: its position, the tracks of its
\* stream, its RTCPeerConnection, its poll interval, its 3 s backup timer
IdleRun == [pc |-> "idle", tracks |-> FALSE, pcOpen |-> FALSE, polling |-> FALSE,
            backup |-> FALSE]

\* refs and state of the hook before its effect ran; mounted is the run whose
\* cleanup function React holds, cap the localStream state of that render
HookState(hook) ==
  [hook |-> hook, mounted |-> NoGen, isInitialized |-> FALSE, cap |-> NoGen,
   localStream |-> NoGen, localStreamRef |-> NoGen, peerConnectionRef |-> NoGen,
   pollingIntervalRef |-> NoGen, reloaded |-> FALSE, run |-> [g \in Gens |-> IdleRun]]

HookOff == web = HookState("none") /\ neg = NegOff

\* the page navigates away: every stream, connection and timer of it is gone
Reloaded(w) ==
  [HookState(w.hook) EXCEPT !.reloaded = TRUE,
                            !.run = [g \in Gens |-> [IdleRun EXCEPT !.pc = "gone"]]]

\* track.stop() on every track of the stream g, when there is one
stopTracks(R, g) == IF g = NoGen THEN R ELSE [R EXCEPT ![g].tracks = FALSE]

\* the effect body (useWebRTC.ts 25-42): runs for a new callId once React has
\* run the previous cleanup
useEffect(g) ==
  /\ ~web.reloaded /\ web.mounted = NoGen /\ ~web.isInitialized
  /\ web.run[g].pc = "idle" /\ \A h \in Gens : h < g => web.run[h].pc # "idle"
  /\ web' = [web EXCEPT !.mounted = g, !.isInitialized = TRUE, !.cap = web.localStream,
                        !.run[g].pc = "media"]
  /\ UNCHANGED <<mvars, svars, cvars, neg, avars>>

\* the cleanup function (useWebRTC.ts 44-115): callId changed or the
\* component unmounts.  The variant stops the tracks of the localStream state
\* its render saw (useLiveStats.ts 143-151) and has no stream ref
cleanup ==
  /\ web.mounted # NoGen
  /\ LET R1 == IF web.pollingIntervalRef # NoGen
               THEN [web.run EXCEPT ![web.pollingIntervalRef].polling = FALSE] ELSE web.run
         R2 == IF web.peerConnectionRef # NoGen
               THEN [R1 EXCEPT ![web.peerConnectionRef].pcOpen = FALSE] ELSE R1
         st == IF web.hook = "useWebRTC" THEN web.localStreamRef ELSE web.cap
     IN web' = [web EXCEPT !.run = stopTracks(R2, st),
                           !.pollingIntervalRef = NoGen, !.peerConnectionRef = NoGen,
                           !.localStreamRef = NoGen,
                           !.localStream = IF st # NoGen THEN NoGen ELSE @,
                           !.isInitialized = FALSE, !.mounted = NoGen]
  /\ UNCHANGED <<mvars, svars, cvars, neg, avars>>

\* the catch block of initializeCall: alert and window.location.href = '/'
\* (useWebRTC.ts 224-238); the variant stops the tracks of the localStream
\* state of its render and stays on the page (useLiveStats.ts 356-367)
catch(g) ==
  IF web.hook = "useWebRTC" THEN Reloaded(web)
  ELSE [web EXCEPT !.run = [stopTracks(web.run, web.cap) EXCEPT ![g].pc = "done"],
                   !.localStream = IF web.cap # NoGen THEN NoGen ELSE @]

\* getUserMedia resolves with a stream, or rejects (125-135)
getUserMedia(g, ok) ==
  /\ web.run[g].pc = "media"
  /\ web' = IF ok
            THEN [web EXCEPT !.run[g].tracks = TRUE, !.run[g].pc = "read",
                             !.localStream = g,
                             !.localStreamRef = IF web.hook = "useWebRTC" THEN g ELSE @]
            ELSE catch(g)
  /\ UNCHANGED <<mvars, svars, cvars, neg, avars>>

\* startPolling (241-269): one interval, unless the ref already holds one
startPollingFor(w, g) ==
  IF w.pollingIntervalRef # NoGen THEN w
  ELSE [w EXCEPT !.pollingIntervalRef = g, !.run[g].polling = TRUE]

\* the read of the call's row returns; the peer connection is created and
\* stored in the ref, and polling is started (137-207); the variant arms its
\* 3 s backup timer instead (useLiveStats.ts 312-317)
createPeerConnection(g, initiator) ==
  /\ web.run[g].pc = "read"
  /\ LET w == [web EXCEPT !.run[g].pcOpen = TRUE, !.peerConnectionRef = g,
                          !.run[g].pc = IF initiator THEN "offer" ELSE "done"]
     IN web' = IF web.hook = "useWebRTC" THEN startPollingFor(w, g)
               ELSE [w EXCEPT !.run[g].backup = TRUE]
  /\ UNCHANGED <<mvars, svars, cvars, neg, avars>>

\* the variant's backup timer fires: polling starts unless the channel in
\* channelRef is joined (null after cleanup)
backupTimer(g, joined) ==
  /\ web.run[g].backup
  /\ joined => web.peerConnectionRef # NoGen
  /\ LET w == [web EXCEPT !.run[g].backup = FALSE]
     IN web' = IF joined THEN w ELSE startPollingFor(w, g)
  /\ UNCHANGED <<mvars, svars, cvars, neg, avars>>

\* the initiator's createOffer (209-222): it throws on a closed connection
createOffer(g) ==
  /\ web.run[g].pc = "offer"
  /\ web' = IF web.run[g].pcOpen THEN [web EXCEPT !.run[g].pc = "done"] ELSE catch(g)
  /\ UNCHANGED <<mvars, svars, cvars, neg, avars>>

HookNext ==
  \/ \E g \in Gens : useEffect(g)
  \/ cleanup
  \/ \E g \in Gens, ok \in BOOLEAN : getUserMedia(g, ok)
  \/ \E g \in Gens, initiator \in BOOLEAN : createPeerConnection(g, initiator)
  \/ \E g \in Gens, joined \in BOOLEAN : backupTimer(g, joined)
  \/ \E g \in Gens : createOffer(g)

(***************************************************************************)
(* Specifications                                                          *)
(***************************************************************************)
Init == MatchInit /\ SigOff /\ CallOff /\ HookOff
Next == MatchNext
\* matching while every user's heartbeat is fresh and no row is 5 minutes old
Spec == Init /\ [][Next]_vars
SpecStale == Init /\ [][StaleNext]_vars

\* one requester (user 1) who starts, cancels and starts again while earlier
\* calls of startMatching and cancelMatching are still awaiting the store
RestartInit ==
  /\ queue = [q \in 1..RestartRows |-> FreeRow]
  /\ calls = <<>>
  /\ usersTbl = [u \in Users |-> [fresh |-> TRUE, status |-> "online"]]
  /\ notif = {}
  /\ screen = [u \in Users |-> "landing"]
  /\ ref = [u \in Users |-> [isMatching |-> FALSE, hasMatched |-> FALSE, poll |-> 0, channel |-> 0]]
  /\ ust = [u \in Users |-> [isSearching |-> FALSE, matchedCall |-> NoCall, queueId |-> NoRow, duration |-> 0]]
  /\ intervals = [u \in Users |-> {}]
  /\ subs = [u \in Users |-> {}]
  /\ timeouts = {}
  /\ startP = [u \in Users |-> [p \in 1..RestartStarts |-> IdleStart]]
  /\ cancelP = [u \in Users |-> [p \in 1..RestartCancels |-> IdleCancel]]
  /\ tick = [u \in Users |-> [s \in Procs |-> IdleTick]]
  /\ SigOff /\ CallOff /\ HookOff

RestartNext ==
  \/ openSetup(1)
  \/ \E d \in Durations : handleStartMatching(1, d)
  \/ \E p \in DOMAIN startP[1] : startMatching_insert(1, p)
  \/ \E p \in DOMAIN startP[1] : pollAndMatch(1, p)
  \/ \E s \in Slots, q \in DOMAIN queue : pollTick(1, s, q)
  \/ \E s \in Slots : tryCreateMatch_scan(1, s)
  \/ cancelClick(1)
  \/ \E p \in DOMAIN cancelP[1] : cancelMatching_update(1, p)
  \/ \E n \in notif : pushCallback(n)
  \/ \E n \in notif : losePush(n)
  \/ \E t \in timeouts : matchingTimeout(t)

SpecRestart == RestartInit /\ [][RestartNext]_vars

\* two live participants whose store calls all succeed and whose change-feed
\* notifications are all lost: only the 2 s poll can match them.  Timers
\* fire and store calls return (weak fairness of every step of the hook).
PollStep(u) ==
  \/ openSetup(u)
  \/ \E d \in Durations : handleStartMatching(u, d)
  \/ \E p \in DOMAIN startP[u] : startMatching_insert(u, p) /\ queue' # queue
  \/ \E p \in DOMAIN startP[u] : pollAndMatch(u, p)
  \/ \E s \in Slots, q \in DOMAIN queue : pollTick(u, s, q)
  \/ \E s \in Slots : tryCreateMatch_scan(u, s)
  \/ \E s \in Slots : tryCreateMatch_liveness(u, s)
  \/ \E s \in Slots : tryCreateMatch_insert(u, s) /\ calls' # calls
  \/ \E s \in Slots, w \in {"ours", "theirs"} : tryCreateMatch_update(u, s, w)
  \/ \E s \in Procs : findAndSetCall(u, s)
  \/ showCall(u)

PollNext ==
  \/ \E u \in Users : PollStep(u)
  \/ \E n \in notif : losePush(n)

PollFair ==
  /\ \A u \in Users : WF_vars(openSetup(u))
  /\ \A u \in Users : WF_vars(\E d \in Durations : handleStartMatching(u, d))
  /\ \A u \in Users : WF_vars(\E p \in DOMAIN startP[u] : startMatching_insert(u, p) /\ queue' # queue)
  /\ \A u \in Users : WF_vars(\E p \in DOMAIN startP[u] : pollAndMatch(u, p))
  /\ \A u \in Users : WF_vars(\E s \in Slots, q \in DOMAIN queue : pollTick(u, s, q))
  /\ \A u \in Users : WF_vars(\E s \in Slots : tryCreateMatch_scan(u, s))
  /\ \A u \in Users : WF_vars(\E s \in Slots : tryCreateMatch_liveness(u, s))
  /\ \A u \in Users : WF_vars(\E s \in Slots : tryCreateMatch_insert(u, s) /\ calls' # calls)
  /\ \A u \in Users : WF_vars(\E s \in Slots, w \in {"ours", "theirs"} : tryCreateMatch_update(u, s, w))
  /\ \A u \in Users : WF_vars(\E s \in Procs : findAndSetCall(u, s))
  /\ \A u \in Users : WF_vars(showCall(u))
  /\ WF_vars(\E n \in notif : losePush(n))

SpecPoll == Init /\ [][PollNext]_vars /\ PollFair

\* two participants who get matched, by poll or by push, and whose signaling
\* hooks then run for the call ids their matchedCall takes
OfferNext ==
  \/ PollNext
  \/ \E n \in notif : pushCallback(n)
  \/ \E u \in Users : effect_callId(u)
  \/ \E u \in Users, c \in CallIds, ok \in BOOLEAN : initializeCall_media(u, c, ok)
  \/ \E u \in Users, c \in CallIds, ok \in BOOLEAN : initializeCall_role(u, c, ok)
  \/ \E u \in Users, c \in CallIds : initializeCall_offer(u, c)

SpecOffer == Init /\ [][OfferNext]_vars

\* matching while presence changes
SpecPresence == Init /\ [][PresenceNext]_vars

\* participants matched by the variant with the id tie-break, which marks
\* both users in_call, who then hang up
TieCallNext ==
  \/ TieNext
  \/ \E u \in Users : endCall(u)
  \/ \E n \in cfeed : callStatusPush(n)
  \/ \E n \in cfeed : callStatusPushLost(n)

SpecTieCall == Init /\ [][TieCallNext]_vars

\* the variant of the hook with the id tie-break
SpecTie == Init /\ [][TieNext]_vars

TieRestartInit ==
  /\ queue = [q \in 1..TieRows |-> FreeRow]
  /\ calls = <<>>
  /\ usersTbl = [u \in Users |-> [fresh |-> TRUE, status |-> "online"]]
  /\ notif = {}
  /\ screen = [u \in Users |-> "landing"]
  /\ ref = [u \in Users |-> [isMatching |-> FALSE, hasMatched |-> FALSE, poll |-> 0, channel |-> 0]]
  /\ ust = [u \in Users |-> [isSearching |-> FALSE, matchedCall |-> NoCall, queueId |-> NoRow, duration |-> 0]]
  /\ intervals = [u \in Users |-> {}]
  /\ subs = [u \in Users |-> {}]
  /\ timeouts = {}
  /\ startP = [u \in Users |-> [p \in StartSlots |-> IdleStart]]
  /\ cancelP = [u \in Users |-> [p \in CancelSlots |-> IdleCancel]]
  /\ tick = [u \in Users |-> [s \in 0..TieAttempts |-> IdleTick]]
  /\ SigOff /\ CallOff /\ HookOff
SpecTieRestart == TieRestartInit /\ [][TieRestartNext]_vars

\* the effect of the signaling hook of one participant, in either variant,
\* mounted for up to MaxMounts call ids in turn
HookInit ==
  /\ MatchInit /\ SigOff /\ CallOff
  /\ web \in {HookState("useWebRTC"), HookState("useLiveStats")}
  /\ neg = NegOff
SpecHook == HookInit /\ [][HookNext]_vars

\* signaling of a participant running useWebRTC.ts, after initializeCall
SignalInit ==
  /\ InCall /\ CallOff /\ HookOff
  /\ signals = <<>> /\ sig = SigState("useWebRTC") /\ hs = [k \in Handlers |-> IdleHandler]
SpecSignal == SignalInit /\ [][SignalNext]_vars
SpecSignalLive == SignalInit /\ [][SignalLiveNext]_vars /\ SignalFair

\* the set of seen ids of a participant of either variant over many messages
SeenInit ==
  /\ InCall /\ CallOff /\ HookOff
  /\ signals = <<>> /\ hs = [k \in Handlers |-> IdleHandler]
  /\ sig \in {SigState("useWebRTC"), SigState("useLiveStats")}
SpecSeen == SeenInit /\ [][SeenNext]_vars

\* the same for the push + poll variant of the hook (useLiveStats.ts)
SignalPushInit ==
  /\ InCall /\ CallOff /\ HookOff
  /\ signals = <<>> /\ sig = SigState("useLiveStats") /\ hs = [k \in Handlers |-> IdleHandler]
SpecSignalPush == SignalPushInit /\ [][SignalPushNext]_vars

\* the call of two matched users whose App mounts useWebRTC.ts
CallInit == InCall /\ SigOff /\ HookOff /\ rtc = [u \in Users |-> Mounted("useWebRTC", 1)] /\ cfeed = {}
            /\ app = AppOff
SpecCall == CallInit /\ [][CallNext]_vars

\* the call timer of participant 1 of that call
SpecTimer == CallInit /\ [][TimerNext]_vars

\* the same with the variant of the hook that writes the Session's status
CallVariantInit == InCall /\ SigOff /\ HookOff /\ rtc = [u \in Users |-> Mounted("useLiveStats", 1)] /\ cfeed = {}
                   /\ app = AppOff
SpecCallVariant == CallVariantInit /\ [][CallVariantNext]_vars

(***************************************************************************)
(* Properties of the matchmaker                                            *)
(***************************************************************************)
PairCalls(a, b) == {c \in 1..Len(calls) : {calls[c].user1, calls[c].user2} = {a, b}}

\* C1: two participants that run the Matchmaker concurrently with the same
\* duration never get more than one Session row for their pair.
C1_OneSessionPerPair ==
  \A a, b \in Users : Cardinality(PairCalls(a, b)) <= 1

\* C2: once both participants' local views are matched, exactly one Session
\* references both of them and it is the one both of them hold.
C2_BothMatchedOneSession ==
  (\A u \in Users : ust[u].matchedCall # NoCall) =>
     \A a, b \in Users : a # b =>
        /\ Cardinality(PairCalls(a, b)) = 1
        /\ ust[a].matchedCall = ust[b].matchedCall

\* a tick of u inserts a Session in this step
InsertsSession(u, s) == tick[u][s].pc = "insert" /\ tick'[u][s].pc = "update"

\* C6: an entry cancelled before it was matched (cancelled, no matched_with)
\* is never the candidate of a Session insert by another participant.
C6_CancelledNeverSelected ==
  [][\A u \in Users, s \in Slots :
       InsertsSession(u, s) =>
         ~(queue[tick[u][s].cand].st = "cancelled" /\ queue[tick[u][s].cand].mw = 0)]_vars

\* C7: no step changes a QueueEntry row from matched to waiting.
C7_MatchedNeverWaiting ==
  [][\A q \in QIds : queue[q].st = "matched" => queue'[q].st # "waiting"]_vars

\* a matched row has since been written by a cancel or a timeout, or deleted
\* by a new startMatching of its owner, who is waiting again with a new row
C7_Witness ==
  \E q \in QIds :
     /\ queue[q].st \in {"cancelled", "expired"}
     /\ queue[q].mw # 0


\* the waiting QueueEntry rows of requester u
WaitingOf(u) == {q \in DOMAIN queue : queue[q].st = "waiting" /\ queue[q].user = u}

\* C11: at every moment each requester has at most one QueueEntry with status
\* waiting
C11_OneWaitingPerRequester == \A u \in Users : Cardinality(WaitingOf(u)) <= 1

\* requester u has a QueueEntry with status waiting or matched
Queued(u) == \E q \in DOMAIN queue : queue[q].user = u /\ queue[q].st \in {"waiting", "matched"}

\* the step in which App calls startMatching for u
CallsStartMatching(u) == screen[u] = "setup" /\ screen'[u] = "waiting"

\* C12: startMatching for a requester who already has a waiting or matched
\* QueueEntry is a no-op: no row changes and no insert is under way
C12_StartNoOpWhenQueued ==
  [][\A u \in Users : CallsStartMatching(u) /\ Queued(u) => queue' = queue /\ startP' = startP]_vars

\* u is back on the setup screen (Cancel was the last thing u pressed, or u
\* has not searched yet) and none of u's startMatching or cancelMatching
\* calls is still awaiting the store
CancelSettled(u) ==
  /\ screen[u] = "setup"
  /\ \A p \in DOMAIN startP[u] : startP[u][p].pc = "idle"
  /\ \A p \in DOMAIN cancelP[u] : cancelP[u][p].pc = "idle"

\* C13: after cancelMatching during matching the caller has no poll loop and
\* no push subscription left and its own QueueEntry is not waiting any more
C13_CancelStopsMatching ==
  \A u \in Users : CancelSettled(u) =>
     intervals[u] = {} /\ subs[u] = {} /\ WaitingOf(u) = {}

\* the 3-minute timer of u's search has fired unmatched: u's row is expired
\* and none of u's startMatching or cancelMatching calls is still awaiting
TimedOut(u) ==
  /\ \E q \in DOMAIN queue : Exists(q) /\ queue[q].user = u /\ queue[q].st = "expired"
  /\ \A p \in DOMAIN startP[u] : startP[u][p].pc = "idle"
  /\ \A p \in DOMAIN cancelP[u] : cancelP[u][p].pc = "idle"

\* C14: once the 3-minute timer has marked a participant's QueueEntry expired,
\* the participant's poll loop is stopped and isSearching is false
C14_TimeoutStopsSearch ==
  \A u \in Users : TimedOut(u) => intervals[u] = {} /\ ~ust[u].isSearching

\* both participants hold the same Session
SameSession == ust[1].matchedCall # NoCall /\ ust[1].matchedCall = ust[2].matchedCall

\* C15: with every change-feed notification lost, two live waiting
\* participants with the same duration are both eventually matched into one
\* Session by the poll
C15_PollMatchesBoth == <>SameSession

\* C18: a Session is inserted only by the participant with the smaller id,
\* so user1_id < user2_id holds in every Session
C18_SmallerIdCreates ==
  \A c \in 1..Len(calls) : calls[c].user1 < calls[c].user2

\* u sets its local matched state to a Session that another participant
\* inserted
JoinsSession(u) ==
  /\ ust[u].matchedCall = NoCall /\ ust'[u].matchedCall # NoCall
  /\ calls[ust'[u].matchedCall].user1 # u

\* C19: the participant that did not create the Session sets its local
\* matched state only once its own QueueEntry is matched with a non-null
\* matched_with
C19_JoinAfterOwnEntryMatched ==
  [][\A u \in Users : JoinsSession(u) =>
        /\ Exists(ust[u].queueId)
        /\ queue[ust[u].queueId].st = "matched"
        /\ queue[ust[u].queueId].mw # 0]_vars

\* the creator u's tryCreateMatch returns from its Promise.all in slot s
CreatorDone(u, s) == tick[u][s].pc = "update" /\ tick'[u][s].pc = "idle"

\* C20: the Session the creator inserted is connecting and references both
\* participants, and once the creator's two updates are done both
\* participants' QueueEntry rows are matched with matched_with set to the
\* other participant
C20_BothEntriesMatched ==
  [][\A u \in Users, s \in Slots : CreatorDone(u, s) =>
        LET t == tick[u][s] IN
        /\ calls'[t.call] = [user1 |-> u, user2 |-> t.candUser, status |-> "connecting"]
        /\ queue'[t.qid].st = "matched" /\ queue'[t.qid].mw = t.candUser
        /\ queue'[t.cand].st = "matched" /\ queue'[t.cand].mw = u]_vars

\* no call of the hook is awaiting the store or a timer's callback
Quiet ==
  /\ \A u \in Users : \A s \in DOMAIN tick[u] : tick[u][s].pc = "idle"
  /\ \A u \in Users : \A p \in DOMAIN startP[u] : startP[u][p].pc = "idle"
  /\ \A u \in Users : \A p \in DOMAIN cancelP[u] : cancelP[u][p].pc = "idle"

\* the Sessions of the pair that are not closed
OpenPairCalls(a, b) == {c \in PairCalls(a, b) : calls[c].status \in {"connecting", "active"}}

\* C21: when both participants have inserted a Session for their pair, the
\* redundant one is deleted: once their attempts have returned, a single
\* Session of the pair is left
C21_RedundantSessionDeleted ==
  Quiet => \A a, b \in Users : Cardinality(OpenPairCalls(a, b)) <= 1

\* row q's status is written to matched in this step
BecomesMatched(q) == Exists(q) /\ queue[q].st # "matched" /\ queue'[q].st = "matched"

\* C22: a QueueEntry becomes matched only from waiting; a cancelled or expired
\* entry is never changed to matched by any participant's write
C22_MatchedOnlyFromWaiting ==
  [][\A q \in DOMAIN queue : BecomesMatched(q) => queue[q].st = "waiting"]_vars

\* the call of tryCreateMatch in slot s of u makes a step
Moves(u, s) == tick'[u][s] # tick[u][s]

\* the users row the liveness read of slot s returns is within the freshness
\* window and not in_call
CandidateLive(u, s) ==
  /\ usersTbl[tick[u][s].candUser].fresh
  /\ usersTbl[tick[u][s].candUser].status # "in_call"

InsertFails(u, s) ==
  tick[u][s].pc = "insert" /\ tick'[u][s].pc = "idle" /\ calls' = calls

\* C24: a failed Session insert is not terminal: after it the requester's
\* poll interval is still running and the matched flag is restored, so a
\* later tick retries
C24_InsertErrorRetried ==
  [][\A u \in Users, s \in Slots :
       InsertFails(u, s) => intervals'[u] # {} /\ ~ref'[u].hasMatched]_vars

\* the offers that u has inserted for Session c
OffersOf(c, u) == {i \in DOMAIN neg.offers : neg.offers[i] = [call |-> c, sender |-> u]}

Attempts(u) == {s \in DOMAIN tick[u] : s # PushSlot /\ tick[u][s].pc # "idle"}

\* C25: within one participant's process at most one matching attempt is in
\* progress at any time
C25_OneAttemptAtATime ==
  \A u \in Users : Cardinality(Attempts(u)) <= 1

(***************************************************************************)
(* Properties of signaling                                                 *)
(***************************************************************************)
\* C3: within one session a participant applies a remote description at most
\* once, whatever the order, the duplicates and the overlap of the messages
C3_RemoteDescriptionOnce == Len(sig.applied) <= 1

\* C4: handling a message again has no effect: of all the invocations of
\* handleSignal on one message at most one changes the remote description,
\* the candidate queue, the set of applied candidates or the messages sent
C4_ReplayNoEffect == \A m \in SigIds : sig.eff[m] <= 1

\* candidate c is waiting in a flush loop that has not reached it yet
InFlush(c) == \E k \in Handlers : /\ hs[k].pc = "flush"
                                  /\ \E x \in (hs[k].j + 1)..Len(hs[k].arr) : hs[k].arr[x] = c

\* C5: a candidate buffered before the remote description is never dropped:
\* it waits in the queue while there is no remote description, and once the
\* description is set it has been applied or the running flush will apply it
C5_BufferedApplied ==
  \A c \in sig.buffered :
     \/ c \in sig.added
     \/ InFlush(c)
     \/ sig.remote = NoDesc /\ c \in Range(sig.iceQueue)

C5_Witness ==
  /\ sig.remote # NoDesc
  /\ Cardinality(sig.buffered) >= 2
  /\ sig.buffered \subseteq sig.added
  /\ \A k \in Handlers : hs[k].pc = "idle"

\* the setRemoteDescription calls on an offer that succeeded
AppliedOffers == {i \in DOMAIN sig.applied : signals[sig.applied[i]].type = "offer"}

\* the handleSignal invocations that have applied an offer and not yet
\* sent its answer
Answering == {k \in Handlers : /\ hs[k].pc \in {"flush", "answer"}
                               /\ signals[hs[k].cur].type = "offer"}

C8_StatusMonotone ==
  [][\A c \in 1..Len(calls) :
       /\ calls[c].status \in {"ended", "failed"} => calls'[c].status \notin {"connecting", "active"}
       /\ calls[c].status = "active" => calls'[c].status # "connecting"]_vars

\* C9: once the handshake timeout has fired for a participant that never saw
\* a connected event, the Session is failed and the participant's tracks,
\* peer connection and signal polling are released
C9_TimeoutFailsSession ==
  \A u \in Users : rtc[u].timedOut /\ ~rtc[u].everConnected =>
     /\ \A c \in 1..Len(calls) : u \in {calls[c].user1, calls[c].user2} => calls[c].status = "failed"
     /\ ~rtc[u].tracks /\ ~rtc[u].pcOpen /\ ~rtc[u].polling

\* participant a's subscription delivers an ended event and a's call view closes
ObservesEnded(a) ==
  /\ screen[a] = "call" /\ screen'[a] = "rating"
  /\ \E n \in cfeed : n.user = a /\ n.status = "ended" /\ n \notin cfeed'

\* C10: when a participant on the call screen observes that the partner has
\* ended the Session, its call view closes and its local media are released
C10_PartnerLeftReleases ==
  [][\A a \in Users : ObservesEnded(a) => ~rtc'[a].tracks]_vars

\* participant u presses the hangup button: endCall closes u's call view
HangsUp(u) ==
  /\ screen[u] = "call" /\ screen'[u] = "rating"
  /\ ~ObservesEnded(u)

\* C16: a hangup closes the participant's call view and releases its local
\* media whether the update that marks the Session ended succeeds or fails
C16_HangupReleases ==
  [][\A u \in Users : HangsUp(u) => screen'[u] # "call" /\ ~rtc'[u].tracks]_vars

\* cleanup has run for the mount g of the hook
CleanedUp(g) == web.run[g].pc # "idle" /\ web.mounted # g

\* C17: after cleanup has run, no track, peer connection or poll interval of
\* that mount is live, also when initializeCall was still awaiting
C17_CleanupReleasesAll ==
  \A g \in Gens : CleanedUp(g) =>
     ~web.run[g].tracks /\ ~web.run[g].pcOpen /\ ~web.run[g].polling

\* the connection of u reports state st in this step
Reports(u, st) == rtc[u].hook # "none" /\ rtc[u].conn # st /\ rtc'[u].conn = st

\* the handler of u writes status st to its Session, or has issued that write
Sets(u, st) == calls'[rtc[u].call].status = st \/ st \in rtc'[u].writes

\* C28: when a participant's connection reports connected its handler sets
\* the Session's status to active, and when it reports failed or
\* disconnected the handler sets it to failed
C28_StatusFollowsConnection ==
  [][\A u \in Users :
       /\ Reports(u, "connected") => Sets(u, "active")
       /\ Reports(u, "failed") \/ Reports(u, "disconnected") => Sets(u, "failed")]_vars

\* Session c has been closed
Closed(c) == calls[c].status \in {"ended", "failed"}

\* C29: once a Session is closed, and every store call and notification in
\* flight has been handled, neither of its participants is in_call any more
\* (status and current_call_id are always written together)
C29_CloseResetsBothUsers ==
  Quiet /\ cfeed = {} =>
    \A c \in DOMAIN calls : Closed(c) =>
       /\ usersTbl[calls[c].user1].status # "in_call"
       /\ usersTbl[calls[c].user2].status # "in_call"

\* C30: while the call screen is shown callTimer never exceeds the planned
\* duration in seconds
C30_TimerWithinDuration ==
  \A u \in Users : screen[u] = "call" => app[u].callTimer <= app[u].duration * SecondsPerMinute

\* the position of id x in the sequence of seen ids
Pos(seq, x) == CHOOSE i \in DOMAIN seq : seq[i] = x

\* C31: after handleSignal's dedup step the set of seen ids holds at most
\* SeenCap ids, and every id that the step evicts was recorded before every
\* id that it keeps
C31_SeenSetBounded ==
  /\ [](Len(sig.processed) <= SeenCap)
  /\ [][\A r \in Range(sig.processed) \ Range(sig'.processed) :
          \A k \in Range(sig.processed) \cap Range(sig'.processed) :
             Pos(sig.processed, r) < Pos(sig.processed, k)]_vars

\* the cap was exceeded and the oldest ids are gone
C31_Witness ==
  /\ sig.hook = "useWebRTC"
  /\ Newest > SeenCap
  /\ Len(sig.processed) > 0 /\ sig.processed[1] = EvictCount + 1

\* an offer or an answer is among the messages addressed to the participant
DescriptionSent == \E m \in DOMAIN signals : signals[m].type \in {"offer", "answer"}

\* the remote description of the participant is an offer
OfferApplied == sig.remote # NoDesc /\ signals[sig.remote].type = "offer"

C33_OneOpenSessionPerParticipant ==
  \A u \in Users : Cardinality(OpenCalls(u)) <= 1

\* the other participant of Session c, seen from u
PartnerIn(c, u) == IF calls[c].user1 = u THEN calls[c].user2 ELSE calls[c].user1

\* C34: when both participants hold a matchedCall they hold the same
\* Session, the Session references both of them, and the partner of each in
\* it is the matched_with of its own QueueEntry
C34_SameSessionAdopted ==
  (\A u \in Users : ust[u].matchedCall # NoCall) =>
     /\ \A a, b \in Users : ust[a].matchedCall = ust[b].matchedCall
     /\ \A u \in Users :
          LET c == ust[u].matchedCall IN
          /\ u \in {calls[c].user1, calls[c].user2}
          /\ Users \subseteq {calls[c].user1, calls[c].user2}
          /\ (Exists(ust[u].queueId) /\ queue[ust[u].queueId].st = "matched")
                => queue[ust[u].queueId].mw = PartnerIn(c, u)

\* u presses the start button of the setup screen in this step
Requests(u) == screen[u] = "setup" /\ screen'[u] = "waiting"

\* the request of this step has put a call_queue insert under way
Enqueues(u) == \E p \in StartSlots : startP[u][p].pc = "idle" /\ startP'[u][p].pc = "insert"

\* C35: a match request made after a call has ended enqueues, and the call
\* screen is never shown again for a Session that has already ended
C35_FreshSessionPerRequest ==
  [][\A u \in Users :
       /\ (Requests(u) /\ ust[u].matchedCall # NoCall
             /\ calls[ust[u].matchedCall].status = "ended") => Enqueues(u)
       /\ (screen[u] = "waiting" /\ screen'[u] = "call")
             => calls[ust'[u].matchedCall].status # "ended"]_vars

\* the search that tick s of u belongs to is over: its QueueEntry was written
\* cancelled or expired, every cancelMatching and startMatching call of u has
\* returned, and u is not searching again
SearchOver(u, s) ==
  /\ tick[u][s].qid # NoRow
  /\ queue[tick[u][s].qid].st \in {"cancelled", "expired"}
  /\ \A p \in DOMAIN startP[u] : startP[u][p].pc = "idle"
  /\ \A p \in DOMAIN cancelP[u] : cancelP[u][p].pc = "idle"
  /\ ~ust[u].isSearching

\* a tick of u writes a QueueEntry row to matched in this step
WritesEntry(u, s) == tick[u][s].pc = "update" /\ tick'[u][s] # tick[u][s]

\* C36: once cancelMatching or the matching timeout has completed, a poll
\* tick or tryCreateMatch of the participant that was in flight inserts no
\* Session and writes no QueueEntry row
C36_NoWriteAfterCancel ==
  [][\A u \in Users, s \in Slots :
       SearchOver(u, s) => ~InsertsSession(u, s) /\ ~WritesEntry(u, s)]_vars

\* the lookup that followed the observation of a matched QueueEntry returns
\* in this step
LookupReturns(u, s) == tick[u][s].pc \in {"find", "retry"} /\ tick'[u][s].pc = "idle"

\* C37: when the lookup of a participant that observed its QueueEntry as
\* matched returns, the participant holds a matchedCall, or is searching, or
\* still has a poll interval or a subscription that can observe again; the
\* hook has no error state to report through
C37_MatchedObserverNotStranded ==
  [][\A u \in Users, s \in Procs :
       LookupReturns(u, s) =>
          \/ ust'[u].matchedCall # NoCall
          \/ ust'[u].isSearching
          \/ intervals'[u] # {}
          \/ subs'[u] # {}]_vars

\* the handshake timeout of u alerts and reloads in this step
TimesOut(u) == ~rtc[u].timedOut /\ rtc'[u].timedOut

\* C38: the handshake timeout fires only for a participant whose connection
\* has not reached connected before the window elapsed
C38_TimeoutOnlyWithoutConnected ==
  [][\A u \in Users : TimesOut(u) => ~rtc[u].everConnected]_vars
====
